---------------------------- MODULE Spec2Model ----------------------------
(***************************************************************************)
(* A model of the embedding service: the EmbeddingService singleton (model *)
(* handle, insertion-ordered cache, counters), and the document pipeline   *)
(* (POST /process, DELETE /documents/{id}) over the relational store.      *)
(***************************************************************************)
EXTENDS Integers, Sequences, FiniteSets, TLC

VARIABLES
    settings,   \* Settings: cache_enabled, cache_size (fixed after start-up)
    artifact,   \* what SentenceTransformer(model_name) finds: ok, wrong dims, unloadable
    svc,        \* the EmbeddingService singleton's fields
    nops,       \* number of service operations performed so far
    last,       \* history: the most recent service operation, with the state before it
    repeat,     \* history: `last` is a call with the texts and flag of a returned call just before it
    inserted,   \* history: the keys written to the cache, in order, since it was last cleared
    documents,  \* table documents: id -> row
    chunks,     \* table chunks: set of rows, id from a sequence
    embeddings, \* table embeddings: set of rows
    next_chunk_id, \* the sequence behind chunks.id
    clock,      \* time.time(), read once at the start of each VectorService call
    rq,         \* POST /process requests: position in the handler and its locals
    faults,     \* number of database statements that have failed so far
    ck,         \* a call of chunking_service.chunk_text: its text and what it returned
    sr,         \* the most recent POST /search: its request and its response
    resp,       \* the most recent response of DELETE /documents/{id} or of the admin cleanup
    qr,         \* the most recent response of a GET endpoint
    tg,         \* a call of tagging_service.tag_chunk: its text and what it returned
    th,         \* generate_embeddings calls running on executor threads: position and locals
    ev,         \* the event loop: each request's handler, the segment it is in, and whether it holds the loop
    rl,         \* the RateLimiter: timestamps per API key, the time, and the most recent call
    eb          \* the most recent POST /embed: its request and its response

service == <<settings, artifact, svc, nops, last, repeat, inserted>>

store == <<documents, chunks, embeddings, next_chunk_id, clock>>

calls == <<ck, sr, resp, qr, tg, th, ev, rl, eb>>

vars == <<service, store, rq, faults, calls>>

---------------------------------------------------------------------------
(* Bounds of the model *)

MaxOps == 3

MaxBatch == 2

MaxCacheSize == 2

\* POST /process requests, which may overlap
MaxRequests == 2

\* database statements that fail (connection lost, statement timeout)
MaxFaults == 1

\* length of the texts given to chunk_text on its own
MaxTextLen == 8

\* A Python str is modelled as the sequence of its characters.
Texts == {<<"a">>, <<"a", ":", ":", "T", "r", "u", "e">>}

\* the characters of the texts given to chunk_text on its own: a word
\* character, a sentence end, whitespace, a character _clean_text removes
ChunkAlphabet == {"a", ".", " ", "#"}

RECURSIVE Strings(_)
Strings(n) ==
    IF n = 0 THEN {<<>>}
    ELSE LET shorter == Strings(n - 1)
         IN shorter \cup {Append(t, c) : t \in {u \in shorter : Len(u) = n - 1},
                                         c \in ChunkAlphabet}

ChunkInputs == Strings(MaxTextLen)

DocIds == {"d1", "d2"}

Workspaces == {"w1"}

\* filename of a request
Filenames == {"f1"}

\* raw_text of a request: empty, whitespace only, nothing chunkable, one
\* sentence, two sentences
DocTexts ==
    { <<>>,
      <<" ", "\n">>,
      <<" ", "#">>,
      <<"a", "a", ".">>,
      <<"a", "a", ".", " ", "\n", "b", "#", "b", ".">> }

---------------------------------------------------------------------------
(* Values *)

\* Python's None in a List[Optional[List[float]]]
None == [text |-> <<>>, normalize |-> FALSE, gen |-> 0]

\* The vector SentenceTransformer.encode produces for `text`. Two encode calls
\* are not assumed to give bit-identical floats for the same text (batch
\* composition changes padding), so a vector carries the encode call `gen`
\* that produced it.
Encode(text, normalize, gen) == [text |-> text, normalize |-> normalize, gen |-> gen]

\* str(bool) as an f-string renders it
BoolStr(b) == IF b THEN <<"T", "r", "u", "e">> ELSE <<"F", "a", "l", "s", "e">>

\* All lists of at most n texts
RECURSIVE Batches(_)
Batches(n) ==
    IF n = 0 THEN {<<>>}
    ELSE LET shorter == Batches(n - 1)
         IN shorter \cup {Append(b, t) : b \in {s \in shorter : Len(s) = n - 1}, t \in Texts}

AllBatches == Batches(MaxBatch)

---------------------------------------------------------------------------
(* EmbeddingService: the cache *)

\* hashlib.sha256 of f"{text}::{normalize}"; the digest is modelled as
\* collision-free, tagged with its input.
compute_cache_key_flagless(text, normalize) == <<"sha256", text>>

compute_cache_key(text, normalize) == <<"sha256", text \o <<":", ":">> \o BoolStr(normalize)>>

CacheKeys(c) == {c[i].key : i \in 1..Len(c)}

CacheValue(c, k) == c[CHOOSE i \in 1..Len(c) : c[i].key = k].value

\* dict[key] = value: an existing key keeps its position, a new key goes last
DictSet(c, k, v) ==
    IF k \in CacheKeys(c)
    THEN [i \in 1..Len(c) |-> IF c[i].key = k THEN [key |-> k, value |-> v] ELSE c[i]]
    ELSE Append(c, [key |-> k, value |-> v])

\* a lookup that moves the entry it hits to the young end of the dict
get_from_cache_refreshing(s, text, normalize) ==
    LET k == compute_cache_key(text, normalize)
    IN IF ~settings.cache_enabled THEN [svc |-> s, cached |-> None]
       ELSE IF k \in CacheKeys(s.cache)
       THEN [svc |-> [s EXCEPT !.cache_hits = @ + 1,
                               !.cache = Append(SelectSeq(s.cache, LAMBDA e : e.key # k),
                                                [key |-> k, value |-> CacheValue(s.cache, k)])],
             cached |-> CacheValue(s.cache, k)]
       ELSE [svc |-> [s EXCEPT !.cache_misses = @ + 1], cached |-> None]

get_from_cache(s, text, normalize) ==
    LET k == compute_cache_key(text, normalize)
    IN IF ~settings.cache_enabled THEN [svc |-> s, cached |-> None]
       ELSE IF k \in CacheKeys(s.cache)
       THEN [svc |-> [s EXCEPT !.cache_hits = @ + 1], cached |-> CacheValue(s.cache, k)]
       ELSE [svc |-> [s EXCEPT !.cache_misses = @ + 1], cached |-> None]

\* a write that never stores
add_to_cache_dropping(c, text, normalize, embedding) == [cache |-> c, raised |-> FALSE]

\* raised: next(iter({})) raises StopIteration when the cache is empty and
\* cache_size is 0
add_to_cache(c, text, normalize, embedding) ==
    LET k == compute_cache_key(text, normalize)
    IN IF ~settings.cache_enabled THEN [cache |-> c, raised |-> FALSE]
       ELSE IF Len(c) >= settings.cache_size
       THEN IF Len(c) = 0 THEN [cache |-> c, raised |-> TRUE]
            ELSE [cache |-> DictSet(Tail(c), k, embedding), raised |-> FALSE]
       ELSE [cache |-> DictSet(c, k, embedding), raised |-> FALSE]

clear_cache(s) == [s EXCEPT !.cache = <<>>]

---------------------------------------------------------------------------
(* EmbeddingService: the model handle *)

\* the text of the test encoding load_model makes to read the dimensions
ProbeTexts == << <<"t", "e", "s", "t">> >>

\* load_model: returns at once when a model is held; otherwise constructs it,
\* checks the dimensions of a test encoding, and on any failure leaves
\* _model = None, _initialized = False and raises RuntimeError.
\* encode_calls lists the arguments of the encode invocations made: the test
\* encoding, once SentenceTransformer(...) has returned a model.
load_model(s) ==
    IF s.model # "None" THEN [svc |-> s, raised |-> FALSE, encode_calls |-> <<>>]
    ELSE IF artifact = "ok"
    THEN [svc |-> [s EXCEPT !.model = "loaded", !.initialized = TRUE], raised |-> FALSE,
          encode_calls |-> <<ProbeTexts>>]
    ELSE [svc |-> [s EXCEPT !.model = "None", !.initialized = FALSE], raised |-> TRUE,
          encode_calls |-> IF artifact = "dim_mismatch" THEN <<ProbeTexts>> ELSE <<>>]

is_ready(s) == s.initialized /\ s.model # "None"

---------------------------------------------------------------------------
(* EmbeddingService.generate_embeddings *)

\* for idx, text in enumerate(texts): the cache lookups, in input order
RECURSIVE LookupAll(_, _, _, _, _, _)
LookupAll(s, texts, normalize, idx, out, to_generate) ==
    IF idx > Len(texts)
    THEN [svc |-> s, embeddings |-> out, to_generate |-> to_generate]
    ELSE LET r == get_from_cache(s, texts[idx], normalize)
         IN IF r.cached # None
            THEN LookupAll(r.svc, texts, normalize, idx + 1,
                           Append(out, r.cached), to_generate)
            ELSE LookupAll(r.svc, texts, normalize, idx + 1,
                           Append(out, None),
                           Append(to_generate, [idx |-> idx, text |-> texts[idx]]))

\* a store loop that writes the j-th generated vector to position j
RECURSIVE StoreGeneratedPacked(_, _, _, _, _, _, _)
StoreGeneratedPacked(c, texts, normalize, to_generate, generated, j, out) ==
    IF j > Len(to_generate)
    THEN [cache |-> c, embeddings |-> out, raised |-> FALSE]
    ELSE LET a == add_to_cache(c, texts[to_generate[j].idx], normalize, generated[j])
         IN IF a.raised
            THEN [cache |-> a.cache, embeddings |-> out, raised |-> TRUE]
            ELSE StoreGeneratedPacked(a.cache, texts, normalize, to_generate, generated, j + 1,
                                      [out EXCEPT ![j] = generated[j]])

\* for idx, embedding_array in zip(indices, generated): embeddings[idx] = ...,
\* then _add_to_cache(texts[idx], ...)
RECURSIVE StoreGenerated(_, _, _, _, _, _, _)
StoreGenerated(c, texts, normalize, to_generate, generated, j, out) ==
    IF j > Len(to_generate)
    THEN [cache |-> c, embeddings |-> out, raised |-> FALSE]
    ELSE LET idx == to_generate[j].idx
             a == add_to_cache(c, texts[idx], normalize, generated[j])
         IN IF a.raised
            THEN [cache |-> a.cache, embeddings |-> [out EXCEPT ![idx] = generated[j]],
                  raised |-> TRUE]
            ELSE StoreGenerated(a.cache, texts, normalize, to_generate, generated, j + 1,
                                [out EXCEPT ![idx] = generated[j]])

\* a call whose lookups record their misses but not their hits
lookup_and_generate_counting_misses_only(s2, texts, normalize, gen, encode_ok, probes) ==
    LET lk0 == LookupAll(s2, texts, normalize, 1, <<>>, <<>>)
        lk == [lk0 EXCEPT !.svc.cache_hits = s2.cache_hits]
        texts_batch == [j \in 1..Len(lk.to_generate) |-> lk.to_generate[j].text]
    IN IF lk.to_generate = <<>>
       THEN [svc |-> lk.svc, outcome |-> "returned",
             result |-> SelectSeq(lk.embeddings, LAMBDA e : e # None),
             encode_calls |-> probes]
       ELSE IF ~encode_ok
       THEN [svc |-> lk.svc, outcome |-> "raised", result |-> <<>>,
             encode_calls |-> Append(probes, texts_batch)]
       ELSE LET generated == [j \in 1..Len(texts_batch) |->
                                 Encode(texts_batch[j], normalize, gen)]
                st == StoreGenerated(lk.svc.cache, texts, normalize,
                                     lk.to_generate, generated, 1, lk.embeddings)
            IN IF st.raised
               THEN [svc |-> [lk.svc EXCEPT !.cache = st.cache],
                     outcome |-> "raised", result |-> <<>>,
                     encode_calls |-> Append(probes, texts_batch)]
               ELSE [svc |-> [lk.svc EXCEPT !.cache = st.cache],
                     outcome |-> "returned",
                     result |-> SelectSeq(st.embeddings, LAMBDA e : e # None),
                     encode_calls |-> Append(probes, texts_batch)]

\* The part of the call after the load check and the request counters: the
\* cache lookups, the one encode call for the misses, the stores. probes are
\* the encode invocations load_model made before it.
lookup_and_generate(s2, texts, normalize, gen, encode_ok, probes) ==
    LET lk == LookupAll(s2, texts, normalize, 1, <<>>, <<>>)
        texts_batch == [j \in 1..Len(lk.to_generate) |-> lk.to_generate[j].text]
    IN IF lk.to_generate = <<>>
       THEN [svc |-> lk.svc, outcome |-> "returned",
             result |-> SelectSeq(lk.embeddings, LAMBDA e : e # None),
             encode_calls |-> probes]
       ELSE IF ~encode_ok
       THEN [svc |-> lk.svc, outcome |-> "raised", result |-> <<>>,
             encode_calls |-> Append(probes, texts_batch)]
       ELSE LET generated == [j \in 1..Len(texts_batch) |->
                                 Encode(texts_batch[j], normalize, gen)]
                st == StoreGenerated(lk.svc.cache, texts, normalize,
                                     lk.to_generate, generated, 1, lk.embeddings)
            IN IF st.raised
               THEN [svc |-> [lk.svc EXCEPT !.cache = st.cache],
                     outcome |-> "raised", result |-> <<>>,
                     encode_calls |-> Append(probes, texts_batch)]
               ELSE [svc |-> [lk.svc EXCEPT !.cache = st.cache],
                     outcome |-> "returned",
                     result |-> SelectSeq(st.embeddings, LAMBDA e : e # None),
                     encode_calls |-> Append(probes, texts_batch)]

\* a call that counts the request and its texts before the load check
generate_embeddings_counting_first(s, texts, normalize, gen, encode_ok) ==
    LET s0 == [s EXCEPT !.total_requests = @ + 1, !.total_embeddings = @ + Len(texts)]
        l == load_model(s0)
        s1 == IF s0.model = "None" THEN l.svc ELSE s0
        probes == IF s0.model = "None" THEN l.encode_calls ELSE <<>>
    IN IF (s0.model = "None" /\ l.raised) \/ ~s1.initialized \/ s1.model = "None"
       THEN [svc |-> s1, outcome |-> "raised", result |-> <<>>, encode_calls |-> probes]
       ELSE lookup_and_generate(s1, texts, normalize, gen, encode_ok, probes)

\* The whole call on service state s. gen names this call's encode invocation,
\* encode_ok is whether model.encode returns (it may raise: out of memory, a
\* device error). Gives the state after, whether the call returned or raised,
\* the returned list, and the encode invocations made.
generate_embeddings(s, texts, normalize, gen, encode_ok) ==
    LET l == load_model(s)
        s1 == IF s.model = "None" THEN l.svc ELSE s
        probes == IF s.model = "None" THEN l.encode_calls ELSE <<>>
    IN IF (s.model = "None" /\ l.raised) \/ ~s1.initialized \/ s1.model = "None"
       THEN [svc |-> s1, outcome |-> "raised", result |-> <<>>, encode_calls |-> probes]
       ELSE lookup_and_generate([s1 EXCEPT !.total_requests = @ + 1,
                                           !.total_embeddings = @ + Len(texts)],
                                texts, normalize, gen, encode_ok, probes)

---------------------------------------------------------------------------
(* ChunkingService *)

\* CHUNK_SIZE from the environment (default 512), scaled to the model's texts
chunk_size == 4

\* _has_header: a first line shorter than this can be a header
HeaderMaxLen == 100

Whitespace == {" ", "\n"}

TerminalPunct == {".", "!", "?"}

\* the characters [\w\s.,!?;:()\-"'\[\]] keeps, among those the model writes
KeptChars ==
    {"a", "b", "T", "r", "u", "e", "F", "l", "s"} \cup Whitespace
    \cup {".", ",", "!", "?", ";", ":", "(", ")", "-", "\"", "'", "[", "]"}

Last(t) == t[Len(t)]

RECURSIVE DropLeadingWs(_)
DropLeadingWs(t) ==
    IF t # <<>> /\ Head(t) \in Whitespace THEN DropLeadingWs(Tail(t)) ELSE t

RECURSIVE DropTrailingWs(_)
DropTrailingWs(t) ==
    IF t # <<>> /\ Last(t) \in Whitespace
    THEN DropTrailingWs(SubSeq(t, 1, Len(t) - 1)) ELSE t

\* str.strip()
Strip(t) == DropTrailingWs(DropLeadingWs(t))

\* re.sub(r'\s+', ' ', text)
RECURSIVE CollapseWhitespace(_)
CollapseWhitespace(t) ==
    IF t = <<>> THEN <<>>
    ELSE IF Head(t) \in Whitespace
    THEN <<" ">> \o CollapseWhitespace(DropLeadingWs(t))
    ELSE <<Head(t)>> \o CollapseWhitespace(Tail(t))

clean_text(text) ==
    Strip(SelectSeq(CollapseWhitespace(text), LAMBDA c : c \in KeptChars))

\* re.split(r'(?<=[.!?])\s+', text): cut at each whitespace run that follows
\* terminal punctuation
RECURSIVE SplitAfterPunct(_, _)
SplitAfterPunct(t, cur) ==
    IF t = <<>> THEN <<cur>>
    ELSE IF Head(t) \in Whitespace /\ cur # <<>> /\ Last(cur) \in TerminalPunct
    THEN <<cur>> \o SplitAfterPunct(DropLeadingWs(t), <<>>)
    ELSE SplitAfterPunct(Tail(t), Append(cur, Head(t)))

\* a split that keeps the empty pieces
split_sentences_unfiltered(text) ==
    LET parts == SplitAfterPunct(text, <<>>)
    IN [i \in 1..Len(parts) |-> Strip(parts[i])]

split_sentences(text) ==
    LET parts == SplitAfterPunct(text, <<>>)
        stripped == [i \in 1..Len(parts) |-> Strip(parts[i])]
    IN SelectSeq(stripped, LAMBDA p : p # <<>>)

\* ' '.join(sentences)
RECURSIVE JoinSpace(_)
JoinSpace(ss) ==
    IF ss = <<>> THEN <<>>
    ELSE IF Len(ss) = 1 THEN ss[1]
    ELSE ss[1] \o <<" ">> \o JoinSpace(Tail(ss))

\* sum(len(s) for s in sentences)
RECURSIVE SumLen(_)
SumLen(ss) == IF ss = <<>> THEN 0 ELSE Len(Head(ss)) + SumLen(Tail(ss))

\* len(text.split())
RECURSIVE estimate_tokens(_)
estimate_tokens(text) ==
    LET t == DropLeadingWs(text)
    IN IF t = <<>> THEN 0
       ELSE LET n == CHOOSE n \in 1..Len(t) :
                        /\ \A i \in 1..n : t[i] \notin Whitespace
                        /\ (n = Len(t) \/ t[n + 1] \in Whitespace)
            IN 1 + estimate_tokens(SubSeq(t, n + 1, Len(t)))

\* text.split('\n')[0]
FirstLine(text) ==
    IF \E i \in 1..Len(text) : text[i] = "\n"
    THEN SubSeq(text, 1, (CHOOSE i \in 1..Len(text) :
                             text[i] = "\n" /\ \A j \in 1..(i - 1) : text[j] # "\n") - 1)
    ELSE text

has_header(text) ==
    IF Len(FirstLine(text)) < HeaderMaxLen
    THEN LET first_line == Strip(FirstLine(text))
         IN ~(first_line # <<>> /\ Last(first_line) \in TerminalPunct)
    ELSE FALSE

\* the title, or <<>> for None
extract_section_title(text) ==
    IF has_header(text) THEN Strip(FirstLine(text)) ELSE <<>>

\* a chunk dict whose char_count adds up the sentences, without the joining spaces
MakeChunkSentenceCount(chunk_index, current_chunk, char_position) ==
    LET text == JoinSpace(current_chunk)
    IN [chunk_index |-> chunk_index, chunk_text |-> text,
        token_count |-> estimate_tokens(text), char_count |-> SumLen(current_chunk),
        start_position |-> char_position,
        end_position |-> char_position + SumLen(current_chunk),
        has_header |-> has_header(text), section_title |-> extract_section_title(text)]

MakeChunk(chunk_index, current_chunk, char_position) ==
    LET text == JoinSpace(current_chunk)
    IN [chunk_index |-> chunk_index, chunk_text |-> text,
        token_count |-> estimate_tokens(text), char_count |-> Len(text),
        start_position |-> char_position, end_position |-> char_position + Len(text),
        has_header |-> has_header(text), section_title |-> extract_section_title(text)]

\* a carry-over of the last sentence only
overlap_sentences_one(current_chunk) ==
    IF Len(current_chunk) > 1
    THEN SubSeq(current_chunk, Len(current_chunk), Len(current_chunk))
    ELSE current_chunk

\* current_chunk[-2:] if len(current_chunk) > 2 else current_chunk
overlap_sentences(current_chunk) ==
    IF Len(current_chunk) > 2
    THEN SubSeq(current_chunk, Len(current_chunk) - 1, Len(current_chunk))
    ELSE current_chunk

\* a new buffer that keeps every sentence of the sealed one
start_next_chunk_keeping_all(current_chunk, sentence) == Append(current_chunk, sentence)

\* current_chunk = overlap_sentences + [sentence]
start_next_chunk(current_chunk, sentence) ==
    Append(overlap_sentences(current_chunk), sentence)

\* for sentence in sentences: seal the buffer when the sentence would overflow
\* it, carrying the last two sentences over; then the remaining buffer
RECURSIVE ChunkLoop(_, _, _, _, _, _)
ChunkLoop(sentences, out, current_chunk, current_length, chunk_index, char_position) ==
    IF sentences = <<>>
    THEN IF current_chunk # <<>>
         THEN Append(out, MakeChunk(chunk_index, current_chunk, char_position))
         ELSE out
    ELSE LET sentence == Head(sentences)
         IN IF current_length + Len(sentence) > chunk_size /\ current_chunk # <<>>
            THEN LET sealed == MakeChunk(chunk_index, current_chunk, char_position)
                     next_chunk == start_next_chunk(current_chunk, sentence)
                 IN ChunkLoop(Tail(sentences), Append(out, sealed), next_chunk,
                              SumLen(next_chunk), chunk_index + 1,
                              char_position + sealed.char_count)
            ELSE ChunkLoop(Tail(sentences), out, Append(current_chunk, sentence),
                           current_length + Len(sentence), chunk_index, char_position)

\* a chunker that returns the sealed chunks and drops the remaining buffer
chunk_text_sealed_only(text) ==
    LET out == ChunkLoop(split_sentences(clean_text(text)), <<>>, <<>>, 0, 0, 0)
    IN SubSeq(out, 1, Len(out) - 1)

chunk_text(text) == ChunkLoop(split_sentences(clean_text(text)), <<>>, <<>>, 0, 0, 0)

---------------------------------------------------------------------------
(* TaggingService *)

\* framework_keywords, in the dict's insertion order, with each framework's
\* phrases cut down to those the model's texts can spell
framework_keywords ==
    << [id |-> 1, name |-> "SOC 2", keywords |-> {<<"s", "o", "c", " ", "2">>}],
       [id |-> 2, name |-> "ISO 27001", keywords |-> {<<"i", "s", "m", "s">>}],
       [id |-> 3, name |-> "GDPR",
        keywords |-> {<<"g", "d", "p", "r">>, <<"p", "r", "i", "v", "a", "c", "y">>}],
       [id |-> 4, name |-> "HIPAA", keywords |-> {<<"h", "i", "p", "a", "a">>, <<"p", "h", "i">>}],
       [id |-> 5, name |-> "PCI DSS", keywords |-> {<<"p", "c", "i", " ", "d", "s", "s">>}] >>

\* str.lower() on the model's characters
LowerChar(c) ==
    CASE c = "P" -> "p" [] c = "I" -> "i" [] c = "A" -> "a" [] c = "S" -> "s"
      [] c = "M" -> "m" [] c = "H" -> "h" [] OTHER -> c

Lower(text) == [i \in 1..Len(text) |-> LowerChar(text[i])]

\* keyword in text_lower
Contains(text, keyword) ==
    \E i \in 1..(Len(text) - Len(keyword) + 1) :
       SubSeq(text, i, i + Len(keyword) - 1) = keyword

\* the table's entries with a phrase in the text: the inner loop stops at the
\* first phrase found, so an entry is appended once however many phrases match
matched_entries(chunk_text_) ==
    LET text_lower == Lower(chunk_text_)
    IN SelectSeq(framework_keywords,
                 LAMBDA f : \E k \in f.keywords : Contains(text_lower, k))

\* matching_frameworks with the table walked from its last entry to its first
matching_frameworks_last_first(chunk_text_) ==
    LET hit == matched_entries(chunk_text_)
    IN [i \in 1..Len(hit) |-> hit[Len(hit) + 1 - i].id]

\* the ids of the frameworks with a phrase in the text, in table order
matching_frameworks(chunk_text_) ==
    LET hit == matched_entries(chunk_text_)
    IN [i \in 1..Len(hit) |-> hit[i].id]

\* the display names appended next to the ids
all_tags(chunk_text_) ==
    LET hit == matched_entries(chunk_text_)
    IN [i \in 1..Len(hit) |-> hit[i].name]

\* tag_chunk: the primary framework is the first match, None (0) without one;
\* compliance_tags is list(set(all_tags)), a set here since a list made from a
\* set has no order to rely on.  The general keywords of _extract_keywords are
\* not stored by any statement of the model and are left out.
tag_chunk(chunk_text_) ==
    LET m == matching_frameworks(chunk_text_)
        tags == all_tags(chunk_text_)
    IN [compliance_framework_id |-> IF m # <<>> THEN m[1] ELSE 0,
        compliance_tags |-> {tags[i] : i \in 1..Len(tags)}]

---------------------------------------------------------------------------
(* VectorService: the statements it sends to PostgreSQL *)

\* an upsert that replaces the whole row on conflict
store_document_resetting(docs, document_id, workspace_id, raw_text, filename, now) ==
    (document_id :> [workspace_id |-> workspace_id, raw_text |-> raw_text,
                     filename |-> filename,
                     processing_status |-> "processing", chunk_count |-> 0,
                     embedding_count |-> 0, processed_at |-> 0,
                     created_at |-> now, updated_at |-> now]) @@ docs

\* INSERT INTO documents ... ON CONFLICT (id) DO UPDATE SET raw_text,
\* updated_at, processing_status. The columns the INSERT does not name take
\* their defaults, written 0 here (no successful run writes 0 to any of them).
store_document(docs, document_id, workspace_id, raw_text, filename, now) ==
    IF document_id \in DOMAIN docs
    THEN [docs EXCEPT ![document_id].raw_text = raw_text,
                      ![document_id].updated_at = now,
                      ![document_id].processing_status = "processing"]
    ELSE (document_id :> [workspace_id |-> workspace_id, raw_text |-> raw_text,
                          filename |-> filename,
                          processing_status |-> "processing", chunk_count |-> 0,
                          embedding_count |-> 0, processed_at |-> 0,
                          created_at |-> now, updated_at |-> now]) @@ docs

\* one INSERT INTO chunks ... RETURNING id of store_chunks' loop
ChunkRow(id, document_id, workspace_id, chunk) ==
    [id |-> id, document_id |-> document_id, workspace_id |-> workspace_id,
     chunk_text |-> chunk.chunk_text, chunk_index |-> chunk.chunk_index,
     token_count |-> chunk.token_count, char_count |-> chunk.char_count,
     start_position |-> chunk.start_position, end_position |-> chunk.end_position,
     has_header |-> chunk.has_header, section_title |-> chunk.section_title,
     embedding_status |-> "pending"]

\* chunks.document_id references documents(id)
ChunkInsertAccepted(docs, document_id) == document_id \in DOMAIN docs

\* f"{document_id}_emb_{i}"
embedding_id(document_id, i) == <<document_id, "_emb_", i>>

\* embeddings.chunk_id references chunks(id), embeddings.document_id references
\* documents(id), and embeddings.id is the primary key: a row whose id exists
\* under another chunk_id is a unique violation, which ON CONFLICT (chunk_id)
\* does not absorb
EmbeddingInsertAccepted(docs, chs, embs, id, chunk_id, document_id) ==
    /\ document_id \in DOMAIN docs
    /\ \E c \in chs : c.id = chunk_id
    /\ \A e \in embs : e.id = id => e.chunk_id = chunk_id

\* INSERT INTO embeddings ... ON CONFLICT (chunk_id) DO UPDATE SET embedding,
\* ..., updated_at
insert_embedding(embs, id, chunk_id, document_id, workspace_id, embedding, tags, now) ==
    IF \E e \in embs : e.chunk_id = chunk_id
    THEN {IF e.chunk_id = chunk_id
          THEN [e EXCEPT !.embedding = embedding,
                         !.compliance_framework_id = tags.compliance_framework_id,
                         !.updated_at = now]
          ELSE e : e \in embs}
    ELSE embs \cup {[id |-> id, chunk_id |-> chunk_id, document_id |-> document_id,
                     workspace_id |-> workspace_id, embedding |-> embedding,
                     compliance_framework_id |-> tags.compliance_framework_id,
                     created_at |-> now, updated_at |-> now]}

\* UPDATE chunks SET embedding_status = 'completed' WHERE document_id = $2
complete_chunks(chs, document_id) ==
    {IF c.document_id = document_id
     THEN [c EXCEPT !.embedding_status = "completed"] ELSE c : c \in chs}

\* UPDATE documents SET processing_status = 'completed', chunk_count,
\* embedding_count, processed_at, updated_at WHERE id = $4
complete_document(docs, document_id, n_chunks, stored_count, now) ==
    IF document_id \in DOMAIN docs
    THEN [docs EXCEPT ![document_id].processing_status = "completed",
                      ![document_id].chunk_count = n_chunks,
                      ![document_id].embedding_count = stored_count,
                      ![document_id].processed_at = now,
                      ![document_id].updated_at = now]
    ELSE docs

\* zip(chunk_ids, embeddings, ...) stops at the shorter list
ZipLen(chunk_ids, embs) ==
    IF Len(chunk_ids) <= Len(embs) THEN Len(chunk_ids) ELSE Len(embs)

---------------------------------------------------------------------------
(* History kept for the properties *)

\* no chunk_text call made yet
NoChunking == [text |-> <<>>, out |-> <<>>, done |-> FALSE]

\* no search made yet
NoSearch ==
    [n |-> 0, query_text |-> <<>>, workspace_id |-> "", limit |-> 0,
     compliance_framework_id |-> <<>>, status |-> 0, results |-> <<>>]

\* no GET answered yet
NoQuery ==
    [op |-> "none", document_id |-> "", status |-> 0,
     completed |-> 0, pending |-> 0, processing |-> 0, failed |-> 0,
     total |-> 0, percentage |-> 0, state |-> "", ids |-> <<>>, chunks |-> <<>>]

\* no tag_chunk call made yet
NoTagging ==
    [text |-> <<>>, out |-> [compliance_framework_id |-> 0, compliance_tags |-> {}],
     done |-> FALSE]

\* the executor threads that run generate_embeddings for the awaiting
\* handlers, one for each request the event loop can have in flight
Threads == 1..MaxRequests

\* an executor thread before its call starts
NoCall ==
    [pc |-> "idle", texts |-> <<>>, idx |-> 0, embeddings |-> <<>>, to_generate |-> <<>>,
     generated |-> <<>>, j |-> 0, acc |-> 0, first_key |-> <<>>, result |-> <<>>,
     error |-> ""]

NoThreads == [t \in Threads |-> NoCall]

\* no handler started on the event loop
NoHandlers == [r \in 1..MaxRequests |-> [path |-> "", k |-> 0, phase |-> "idle"]]

\* the API keys of settings.api_keys
ApiKeys == {"k1", "k2"}

\* the rate limiter as constructed, before any call
NoLimiter ==
    [requests |-> [k \in ApiKeys |-> <<>>], accepted |-> [k \in ApiKeys |-> <<>>],
     now |-> 0, limit_per_minute |-> 1,
     last |-> [op |-> "none", api_key |-> "", at |-> 0, result |-> 0, before |-> <<>>]]

\* no POST /embed answered yet
NoEmbed ==
    [n |-> 0, credentials |-> "", texts |-> <<>>, normalize |-> FALSE, status |-> 0,
     invoked |-> FALSE]

\* no delete or cleanup answered yet
NoResponse ==
    [op |-> "none", document_id |-> "", valid |-> {}, status |-> 0,
     deletedEmbeddings |-> 0, deletedChunks |-> 0, deletedDocuments |-> 0]

\* a request slot before its request arrives
NoRequest ==
    [pc |-> "idle", document_id |-> "", workspace_id |-> "", raw_text |-> <<>>,
     chunks |-> <<>>, chunk_ids |-> <<>>, embeddings |-> <<>>, now |-> 0,
     stored_count |-> 0, status |-> 0, chunks_created |-> 0,
     embeddings_stored |-> 0, failed_in |-> ""]

NoOp == [op |-> "none", texts |-> <<>>, normalize |-> FALSE,
         outcome |-> "none", result |-> <<>>, before |-> <<>>, encode_calls |-> <<>>]

\* the keys a call looked up and missed, in input order: the keys it then
\* writes to the cache, one _add_to_cache each
MissKeys(s, texts, normalize) ==
    LET ks == [i \in 1..Len(texts) |-> compute_cache_key(texts[i], normalize)]
    IN SelectSeq(ks, LAMBDA k : k \notin CacheKeys(s.cache))

\* model.encode is reached only with a usable model and at least one miss;
\* only then can it raise
EncodeOutcomes(s, texts, normalize) ==
    IF (s.model = "None" => artifact = "ok") /\ (s.model # "None" => s.initialized)
       /\ MissKeys(s, texts, normalize) # <<>>
    THEN BOOLEAN ELSE {TRUE}

---------------------------------------------------------------------------
(* The service's operations *)

Init ==
    /\ settings \in [cache_enabled : BOOLEAN, cache_size : 0..MaxCacheSize]
    /\ artifact \in {"ok", "dim_mismatch", "load_error"}
    /\ svc = [model |-> "None", initialized |-> FALSE, cache |-> <<>>,
              cache_hits |-> 0, cache_misses |-> 0,
              total_requests |-> 0, total_embeddings |-> 0]
    /\ nops = 0
    /\ last = NoOp
    /\ repeat = FALSE
    /\ inserted = <<>>
    /\ documents = <<>>
    /\ chunks = {}
    /\ embeddings = {}
    /\ next_chunk_id = 1
    /\ clock = 0
    /\ rq = [r \in 1..MaxRequests |-> NoRequest]
    /\ faults = 0
    /\ ck = NoChunking
    /\ sr = NoSearch
    /\ resp = NoResponse
    /\ qr = NoQuery /\ tg = NoTagging /\ th = NoThreads /\ ev = NoHandlers /\ rl = NoLimiter /\ eb = NoEmbed

Record(op, texts, normalize, outcome, result, encode_calls) ==
    /\ nops' = nops + 1
    /\ repeat' = ( /\ op = "generate" /\ last.op = "generate" /\ last.outcome = "returned"
                   /\ texts = last.texts /\ normalize = last.normalize )
    /\ last' = [op |-> op, texts |-> texts, normalize |-> normalize,
                outcome |-> outcome, result |-> result, before |-> svc,
                encode_calls |-> encode_calls]

\* service.generate_embeddings(texts, normalize)
GenerateEmbeddings ==
    /\ nops < MaxOps
    /\ \E texts \in AllBatches, normalize \in BOOLEAN :
       \E encode_ok \in EncodeOutcomes(svc, texts, normalize) :
          LET r == generate_embeddings(svc, texts, normalize, nops + 1, encode_ok)
          IN /\ svc' = r.svc
             /\ Record("generate", texts, normalize, r.outcome, r.result, r.encode_calls)
             /\ inserted' = IF r.outcome = "returned" /\ settings.cache_enabled
                            THEN inserted \o MissKeys(svc, texts, normalize)
                            ELSE inserted
    /\ UNCHANGED <<settings, artifact, store, rq, faults, calls>>

\* service.load_model(), as the start-up hook and the /embed route call it
LoadModel ==
    /\ nops < MaxOps
    /\ LET r == load_model(svc)
       IN /\ svc' = r.svc
          /\ Record("load_model", <<>>, FALSE, IF r.raised THEN "raised" ELSE "returned", <<>>,
                    r.encode_calls)
    /\ UNCHANGED <<settings, artifact, inserted, store, rq, faults, calls>>

\* EmbeddingService(): __new__ gives the singleton back, __init__ runs again
Construct ==
    /\ nops < MaxOps
    /\ svc' = [svc EXCEPT !.initialized = FALSE]
    /\ Record("construct", <<>>, FALSE, "returned", <<>>, <<>>)
    /\ UNCHANGED <<settings, artifact, inserted, store, rq, faults, calls>>

\* service.clear_cache()
ClearCache ==
    /\ nops < MaxOps
    /\ svc' = clear_cache(svc)
    /\ Record("clear_cache", <<>>, FALSE, "returned", <<>>, <<>>)
    /\ inserted' = <<>>
    /\ UNCHANGED <<settings, artifact, store, rq, faults, calls>>

Next == GenerateEmbeddings \/ LoadModel \/ Construct \/ ClearCache

Spec == Init /\ [][Next]_vars

---------------------------------------------------------------------------
(* POST /api/v1/documents/process, one action per database statement or     *)
(* executor call the handler awaits, and DELETE /api/v1/documents/{id}      *)

\* a statement sent to the database returns or raises
StatementOutcomes == IF faults < MaxFaults THEN BOOLEAN ELSE {TRUE}

\* except Exception: raise HTTPException(500); nothing is written
Fail(r, where) ==
    rq' = [rq EXCEPT ![r].pc = "done", ![r].status = 500, ![r].failed_in = where]

CountFault(ok) == faults' = IF ok THEN faults ELSE faults + 1

\* the request arrives; store_document's upsert; chunk_text; the 400 for no
\* chunks, which `except Exception` turns into a 500
StoreDocument(r) ==
    /\ rq[r].pc = "idle"
    /\ r > 1 => rq[r - 1].pc # "idle"
    /\ \E d \in DocIds, w \in Workspaces, text \in DocTexts, filename \in Filenames,
          ok \in StatementOutcomes :
          LET req == [rq[r] EXCEPT !.document_id = d, !.workspace_id = w,
                                   !.raw_text = text]
              chs == chunk_text(text)
          IN /\ CountFault(ok)
             /\ IF ~ok
                THEN /\ rq' = [rq EXCEPT ![r] = [req EXCEPT !.pc = "done", !.status = 500,
                                                            !.failed_in = "store_document"]]
                     /\ UNCHANGED <<documents, clock>>
                ELSE /\ documents' = store_document(documents, d, w, text, filename, clock + 1)
                     /\ IF chs = <<>>
                        THEN /\ rq' = [rq EXCEPT ![r] = [req EXCEPT !.pc = "done",
                                                                    !.status = 500,
                                                                    !.failed_in = "chunk_text"]]
                             /\ clock' = clock + 1
                        ELSE /\ rq' = [rq EXCEPT ![r] = [req EXCEPT !.pc = "store_chunks",
                                                                    !.chunks = chs,
                                                                    !.now = clock + 2]]
                             /\ clock' = clock + 2
    /\ UNCHANGED <<service, chunks, embeddings, next_chunk_id, calls>>

\* store_chunks: the next INSERT INTO chunks of its loop
StoreChunk(r) ==
    /\ rq[r].pc = "store_chunks"
    /\ \E ok \in StatementOutcomes :
          LET i == Len(rq[r].chunk_ids) + 1
          IN /\ CountFault(ok)
             /\ IF ~ok \/ ~ChunkInsertAccepted(documents, rq[r].document_id)
                THEN /\ Fail(r, "store_chunks")
                     /\ UNCHANGED <<chunks, next_chunk_id>>
                ELSE /\ chunks' = chunks \cup {ChunkRow(next_chunk_id, rq[r].document_id,
                                                        rq[r].workspace_id, rq[r].chunks[i])}
                     /\ next_chunk_id' = next_chunk_id + 1
                     /\ rq' = [rq EXCEPT ![r].chunk_ids = Append(@, next_chunk_id),
                                         ![r].pc = IF i = Len(rq[r].chunks)
                                                   THEN "embed" ELSE "store_chunks"]
    /\ UNCHANGED <<service, documents, embeddings, clock, calls>>

\* generate_embeddings_async(chunk_texts): the call in the executor, then
\* tagging (pure, cannot raise) and the entry of store_embeddings. The call
\* is one step: calls that overlap in the executor's threads differ from it
\* only in the cache they leave and in further ways to raise, and the call
\* can already raise here whenever it has a miss.
Embed(r) ==
    /\ rq[r].pc = "embed"
    /\ LET texts == [i \in 1..Len(rq[r].chunks) |-> rq[r].chunks[i].chunk_text]
       IN \E encode_ok \in EncodeOutcomes(svc, texts, TRUE) :
             LET g == generate_embeddings(svc, texts, TRUE, nops + 1, encode_ok)
             IN /\ svc' = g.svc
                /\ Record("generate", texts, TRUE, g.outcome, g.result, g.encode_calls)
                /\ inserted' = IF g.outcome = "returned" /\ settings.cache_enabled
                               THEN inserted \o MissKeys(svc, texts, TRUE)
                               ELSE inserted
                /\ IF g.outcome = "raised"
                   THEN Fail(r, "generate_embeddings") /\ UNCHANGED clock
                   ELSE /\ rq' = [rq EXCEPT ![r].embeddings = g.result,
                                            ![r].pc = "store_embeddings",
                                            ![r].now = clock + 1]
                        /\ clock' = clock + 1
    /\ UNCHANGED <<settings, artifact, documents, chunks, embeddings, next_chunk_id, faults, calls>>

\* store_embeddings: the next INSERT INTO embeddings of its loop (for the
\* first one, register_vector before it: either may raise, nothing written)
StoreEmbedding(r) ==
    /\ rq[r].pc = "store_embeddings"
    /\ \E ok \in StatementOutcomes :
          LET i == rq[r].stored_count
              d == rq[r].document_id
              id == embedding_id(d, i)
              chunk_id == rq[r].chunk_ids[i + 1]
          IN /\ CountFault(ok)
             /\ IF ~ok \/ ~EmbeddingInsertAccepted(documents, chunks, embeddings,
                                                   id, chunk_id, d)
                THEN Fail(r, "store_embeddings") /\ UNCHANGED embeddings
                ELSE /\ embeddings' = insert_embedding(embeddings, id, chunk_id, d,
                                                       rq[r].workspace_id,
                                                       rq[r].embeddings[i + 1],
                                                       tag_chunk(rq[r].chunks[i + 1].chunk_text),
                                                       rq[r].now)
                     /\ rq' = [rq EXCEPT ![r].stored_count = i + 1,
                                         ![r].pc = IF i + 1 = ZipLen(rq[r].chunk_ids,
                                                                     rq[r].embeddings)
                                                   THEN "update_chunks"
                                                   ELSE "store_embeddings"]
    /\ UNCHANGED <<service, documents, chunks, next_chunk_id, clock, calls>>

\* store_embeddings: UPDATE chunks SET embedding_status = 'completed'
UpdateChunks(r) ==
    /\ rq[r].pc = "update_chunks"
    /\ \E ok \in StatementOutcomes :
          /\ CountFault(ok)
          /\ IF ~ok
             THEN Fail(r, "store_embeddings") /\ UNCHANGED chunks
             ELSE /\ chunks' = complete_chunks(chunks, rq[r].document_id)
                  /\ rq' = [rq EXCEPT ![r].pc = "update_document"]
    /\ UNCHANGED <<service, documents, embeddings, next_chunk_id, clock, calls>>

\* store_embeddings: UPDATE documents SET processing_status = 'completed', ...
\* and the handler's 200 response
UpdateDocument(r) ==
    /\ rq[r].pc = "update_document"
    /\ \E ok \in StatementOutcomes :
          /\ CountFault(ok)
          /\ IF ~ok
             THEN Fail(r, "store_embeddings") /\ UNCHANGED documents
             ELSE /\ documents' = complete_document(documents, rq[r].document_id,
                                                    Len(rq[r].chunk_ids),
                                                    rq[r].stored_count, rq[r].now)
                  /\ rq' = [rq EXCEPT ![r].pc = "done", ![r].status = 200,
                                      ![r].chunks_created = Len(rq[r].chunks),
                                      ![r].embeddings_stored = rq[r].stored_count]
    /\ UNCHANGED <<service, chunks, embeddings, next_chunk_id, clock, calls>>

\* a delete that leaves the chunk rows in place
delete_document_keeping_chunks(docs, chs, embs, document_id) ==
    IF document_id \notin DOMAIN docs
    THEN [documents |-> docs, chunks |-> chs, embeddings |-> embs,
          deleted_embeddings |-> 0, deleted_chunks |-> 0, deleted_document |-> 0]
    ELSE LET del_e == {e \in embs : e.document_id = document_id}
         IN [documents |-> [x \in DOMAIN docs \ {document_id} |-> docs[x]],
             chunks |-> chs, embeddings |-> embs \ del_e,
             deleted_embeddings |-> Cardinality(del_e),
             deleted_chunks |-> 0,
             deleted_document |-> 1]

\* delete_document's transaction: when the document row is absent nothing is
\* deleted and zeros are reported; otherwise DELETE FROM embeddings, chunks,
\* documents WHERE document_id = %s, each reporting cur.rowcount
delete_document(docs, chs, embs, document_id) ==
    IF document_id \notin DOMAIN docs
    THEN [documents |-> docs, chunks |-> chs, embeddings |-> embs,
          deleted_embeddings |-> 0, deleted_chunks |-> 0, deleted_document |-> 0]
    ELSE LET del_e == {e \in embs : e.document_id = document_id}
             del_c == {c \in chs : c.document_id = document_id}
         IN [documents |-> [x \in DOMAIN docs \ {document_id} |-> docs[x]],
             chunks |-> chs \ del_c, embeddings |-> embs \ del_e,
             deleted_embeddings |-> Cardinality(del_e),
             deleted_chunks |-> Cardinality(del_c),
             deleted_document |-> 1]

\* DELETE /api/v1/documents/{document_id}: one psycopg2 transaction, run
\* without awaiting, and its response (success in both branches)
DeleteDocument(d) ==
    /\ LET t == delete_document(documents, chunks, embeddings, d)
       IN /\ documents' = t.documents
          /\ chunks' = t.chunks
          /\ embeddings' = t.embeddings
          /\ resp' = [op |-> "delete", document_id |-> d, valid |-> {}, status |-> 200,
                      deletedEmbeddings |-> t.deleted_embeddings,
                      deletedChunks |-> t.deleted_chunks,
                      deletedDocuments |-> t.deleted_document]
    /\ UNCHANGED <<service, next_chunk_id, clock, rq, faults, ck, sr, qr, tg, th, ev, rl, eb>>

NextPipe ==
    \/ \E r \in 1..MaxRequests :
          \/ StoreDocument(r)
          \/ StoreChunk(r)
          \/ Embed(r)
          \/ StoreEmbedding(r)
          \/ UpdateChunks(r)
          \/ UpdateDocument(r)
    \/ \E d \in DocIds : DeleteDocument(d)

SpecPipe == Init /\ [][NextPipe]_vars

---------------------------------------------------------------------------
(* Search, and the handlers run one at a time *)

MaxSearches == 1

\* workspace_id, raw_text and filename of the requests of SpecQuery
SearchWorkspaces == {"w1", "w2"}

SearchTexts ==
    { <<>>,
      <<"a", ".">>,
      <<"P", "h", "i", ".", " ", "i", "s", "m", "s", ".">> }

SearchFilenames == {"f1", "f2"}

\* query_text, limit and compliance_framework_id of a SearchRequest; the
\* Optional[int] is <<>> for None and <<n>> for the integer n
QueryTexts == {<<"P", "h", "i", ".">>}

Limits == 1..2

Filters == {<<>>, <<0>>, <<4>>}

\* e.embedding <=> $1::vector, pgvector's cosine distance: a fixed function
\* of the two vectors with values in 0..2, 0 for vectors of the same text
Distance(q, v) ==
    IF q.text = v.text THEN 0
    ELSE IF Len(q.text) < Len(v.text) THEN 1 ELSE 2

\* `if compliance_framework_id:` on an Optional[int]
Truthy(opt) == opt # <<>> /\ opt[1] # 0

\* the rows of FROM embeddings e JOIN chunks c JOIN documents d WHERE
\* e.workspace_id = $2 [AND e.compliance_framework_id = $3]; a NULL (0)
\* framework equals nothing
search_candidates(docs, chs, embs, workspace_id, compliance_framework_id) ==
    {e \in embs :
        /\ e.workspace_id = workspace_id
        /\ Truthy(compliance_framework_id)
           => /\ e.compliance_framework_id # 0
              /\ e.compliance_framework_id = compliance_framework_id[1]
        /\ e.document_id \in DOMAIN docs
        /\ \E c \in chs : c.id = e.chunk_id}

\* one row of the SELECT as the result dict
ResultRow(docs, chs, e, q) ==
    [id |-> e.id, chunk_id |-> e.chunk_id, document_id |-> e.document_id,
     chunk_text |-> (CHOOSE c \in chs : c.id = e.chunk_id).chunk_text,
     filename |-> docs[e.document_id].filename,
     compliance_framework_id |-> e.compliance_framework_id,
     distance |-> Distance(q, e.embedding),
     similarity |-> 1 - Distance(q, e.embedding)]

\* ORDER BY distance LIMIT n: every order of n candidates that is ascending
\* in distance and leaves out no closer candidate (ties in any order)
Ranked(cand, q, n) ==
    {s \in [1..n -> cand] :
        /\ \A i, j \in 1..n : i < j => /\ s[i] # s[j]
                                       /\ Distance(q, s[i].embedding)
                                             <= Distance(q, s[j].embedding)
        /\ \A e \in cand : (\A i \in 1..n : s[i] # e)
              => \A i \in 1..n : Distance(q, s[i].embedding) <= Distance(q, e.embedding)}

MinOf(a, b) == IF a <= b THEN a ELSE b

\* search_similar: the lists of result dicts the query can return
search_similar(docs, chs, embs, q, workspace_id, limit, compliance_framework_id) ==
    LET cand == search_candidates(docs, chs, embs, workspace_id, compliance_framework_id)
        n == MinOf(limit, Cardinality(cand))
    IN {[i \in 1..n |-> ResultRow(docs, chs, s[i], q)] : s \in Ranked(cand, q, n)}

\* store_embeddings' loop from its i-th INSERT on; a rejected INSERT raises
\* and leaves the rows written so far
RECURSIVE store_embeddings_loop(_, _, _, _, _, _, _, _, _, _)
store_embeddings_loop(docs, chs, embs, document_id, workspace_id, chunk_ids, vecs, tags_list, now, i) ==
    IF i = ZipLen(chunk_ids, vecs)
    THEN [embeddings |-> embs, stored_count |-> i, raised |-> FALSE]
    ELSE IF ~EmbeddingInsertAccepted(docs, chs, embs, embedding_id(document_id, i),
                                     chunk_ids[i + 1], document_id)
    THEN [embeddings |-> embs, stored_count |-> i, raised |-> TRUE]
    ELSE store_embeddings_loop(docs, chs,
                               insert_embedding(embs, embedding_id(document_id, i),
                                                chunk_ids[i + 1], document_id, workspace_id,
                                                vecs[i + 1], tags_list[i + 1], now),
                               document_id, workspace_id, chunk_ids, vecs, tags_list,
                               now, i + 1)

\* POST /process from arrival to response with no other request in between
\* and no failing statement: store_document, chunk_text, store_chunks,
\* generate_embeddings_async, tag_chunk, store_embeddings
ProcessDocument(r) ==
    /\ rq[r].pc = "idle"
    /\ r > 1 => rq[r - 1].pc # "idle"
    /\ \E d \in DocIds, w \in SearchWorkspaces, text \in SearchTexts,
          filename \in SearchFilenames :
          \E chs \in {chunk_text(text)} :
          LET req == [rq[r] EXCEPT !.document_id = d, !.workspace_id = w,
                                   !.raw_text = text, !.pc = "done"]
              docs1 == store_document(documents, d, w, text, filename, clock + 1)
              ids == [i \in 1..Len(chs) |-> next_chunk_id + i - 1]
              chs1 == chunks \cup {ChunkRow(ids[i], d, w, chs[i]) : i \in 1..Len(chs)}
              texts == [i \in 1..Len(chs) |-> chs[i].chunk_text]
              tags_list == [i \in 1..Len(chs) |-> tag_chunk(chs[i].chunk_text)]
          IN IF chs = <<>>
             THEN /\ documents' = docs1
                  /\ clock' = clock + 1
                  /\ rq' = [rq EXCEPT ![r] = [req EXCEPT !.status = 500,
                                                         !.failed_in = "chunk_text"]]
                  /\ UNCHANGED <<service, chunks, embeddings, next_chunk_id>>
             ELSE \E encode_ok \in EncodeOutcomes(svc, texts, TRUE) :
                     \E g \in {generate_embeddings(svc, texts, TRUE, nops + 1, encode_ok)} :
                     \E st \in {store_embeddings_loop(docs1, chs1, embeddings, d, w, ids,
                                                      g.result, tags_list, clock + 3, 0)} :
                        /\ svc' = g.svc
                        /\ Record("generate", texts, TRUE, g.outcome, g.result, g.encode_calls)
                        /\ inserted' = IF g.outcome = "returned" /\ settings.cache_enabled
                                       THEN inserted \o MissKeys(svc, texts, TRUE)
                                       ELSE inserted
                        /\ next_chunk_id' = next_chunk_id + Len(chs)
                        /\ UNCHANGED <<settings, artifact>>
                        /\ IF g.outcome = "raised"
                           THEN /\ documents' = docs1 /\ chunks' = chs1
                                /\ clock' = clock + 2
                                /\ rq' = [rq EXCEPT ![r] =
                                            [req EXCEPT !.chunks = chs, !.chunk_ids = ids,
                                                        !.status = 500,
                                                        !.failed_in = "generate_embeddings"]]
                                /\ UNCHANGED embeddings
                           ELSE IF st.raised
                           THEN /\ documents' = docs1 /\ chunks' = chs1
                                /\ embeddings' = st.embeddings
                                /\ clock' = clock + 3
                                /\ rq' = [rq EXCEPT ![r] =
                                            [req EXCEPT !.chunks = chs, !.chunk_ids = ids,
                                                        !.embeddings = g.result,
                                                        !.now = clock + 3,
                                                        !.stored_count = st.stored_count,
                                                        !.status = 500,
                                                        !.failed_in = "store_embeddings"]]
                           ELSE /\ documents' = complete_document(docs1, d, Len(ids),
                                                                  st.stored_count, clock + 3)
                                /\ chunks' = complete_chunks(chs1, d)
                                /\ embeddings' = st.embeddings
                                /\ clock' = clock + 3
                                /\ rq' = [rq EXCEPT ![r] =
                                            [req EXCEPT !.chunks = chs, !.chunk_ids = ids,
                                                        !.embeddings = g.result,
                                                        !.now = clock + 3,
                                                        !.stored_count = st.stored_count,
                                                        !.status = 200,
                                                        !.chunks_created = Len(chs),
                                                        !.embeddings_stored = st.stored_count]]
    /\ UNCHANGED <<faults, calls>>

\* POST /search: generate_embeddings_async([query_text]), search_similar, and
\* the response; any exception becomes a 500
Search ==
    /\ sr.n < MaxSearches
    /\ \E query_text \in QueryTexts, w \in SearchWorkspaces, limit \in Limits,
          f \in Filters :
          \E encode_ok \in EncodeOutcomes(svc, <<query_text>>, TRUE) :
             \E g \in {generate_embeddings(svc, <<query_text>>, TRUE, nops + 1, encode_ok)} :
             LET request == [sr EXCEPT !.n = sr.n + 1, !.query_text = query_text,
                                       !.workspace_id = w, !.limit = limit,
                                       !.compliance_framework_id = f]
             IN /\ svc' = g.svc
                /\ Record("generate", <<query_text>>, TRUE, g.outcome, g.result, g.encode_calls)
                /\ inserted' = IF g.outcome = "returned" /\ settings.cache_enabled
                               THEN inserted \o MissKeys(svc, <<query_text>>, TRUE)
                               ELSE inserted
                /\ IF g.outcome = "raised"
                   THEN sr' = [request EXCEPT !.status = 500, !.results = <<>>]
                   ELSE \E results \in search_similar(documents, chunks, embeddings,
                                                      g.result[1], w, limit, f) :
                           sr' = [request EXCEPT !.status = 200, !.results = results]
    /\ UNCHANGED <<settings, artifact, store, rq, faults, ck, resp, qr, tg, th, ev, rl, eb>>

\* postgres_doc_ids - valid_document_ids, taken as every document
orphaned_document_ids_all(docs, valid_document_ids) == DOMAIN docs

\* postgres_doc_ids - valid_document_ids
orphaned_document_ids(docs, valid_document_ids) == DOMAIN docs \ valid_document_ids

\* POST /api/v1/admin/cleanup/orphaned-embeddings: one psycopg2 transaction,
\* run without awaiting: DELETE FROM embeddings, chunks, documents WHERE the
\* document id = ANY(orphaned ids), each reporting cur.rowcount
CleanupOrphaned(valid) ==
    /\ LET orphaned == orphaned_document_ids(documents, valid)
           del_e == {e \in embeddings : e.document_id \in orphaned}
           del_c == {c \in chunks : c.document_id \in orphaned}
       IN /\ embeddings' = embeddings \ del_e
          /\ chunks' = chunks \ del_c
          /\ documents' = [x \in DOMAIN documents \ orphaned |-> documents[x]]
          /\ resp' = [op |-> "cleanup", document_id |-> "", valid |-> valid,
                      status |-> 200,
                      deletedEmbeddings |-> Cardinality(del_e),
                      deletedChunks |-> Cardinality(del_c),
                      deletedDocuments |-> Cardinality(orphaned)]
    /\ UNCHANGED <<service, next_chunk_id, clock, rq, faults, ck, sr, qr, tg, th, ev, rl, eb>>

InitQuery ==
    /\ settings = [cache_enabled |-> TRUE, cache_size |-> MaxCacheSize]
    /\ artifact = "ok"
    /\ svc = [model |-> "None", initialized |-> FALSE, cache |-> <<>>,
              cache_hits |-> 0, cache_misses |-> 0,
              total_requests |-> 0, total_embeddings |-> 0]
    /\ nops = 0 /\ last = NoOp /\ repeat = FALSE /\ inserted = <<>>
    /\ documents = <<>> /\ chunks = {} /\ embeddings = {}
    /\ next_chunk_id = 1 /\ clock = 0
    /\ rq = [r \in 1..MaxRequests |-> NoRequest]
    /\ faults = 0
    /\ ck = NoChunking /\ sr = NoSearch /\ resp = NoResponse /\ qr = NoQuery /\ tg = NoTagging /\ th = NoThreads /\ ev = NoHandlers /\ rl = NoLimiter /\ eb = NoEmbed

\* processing and search, one handler at a time
NextQuery ==
    \/ \E r \in 1..MaxRequests : ProcessDocument(r)
    \/ Search

SpecQuery == InitQuery /\ [][NextQuery]_vars

\* processing, delete and cleanup, one handler at a time
NextAdmin ==
    \/ \E r \in 1..MaxRequests : ProcessDocument(r)
    \/ \E d \in DocIds : DeleteDocument(d)
    \/ \E valid \in SUBSET DocIds : CleanupOrphaned(valid)

SpecAdmin == InitQuery /\ [][NextAdmin]_vars

---------------------------------------------------------------------------
(* The document query endpoints (routes/documents.py over DatabaseService) *)

\* get_chunk_statistics(document_id): read from the documents row, not from
\* the chunk rows; zeros when there is no row
get_chunk_statistics(docs, document_id) ==
    IF document_id \in DOMAIN docs
    THEN [completed |-> docs[document_id].embedding_count,
          pending |-> docs[document_id].chunk_count - docs[document_id].embedding_count,
          processing |-> 0, failed |-> 0]
    ELSE [completed |-> 0, pending |-> 0, processing |-> 0, failed |-> 0]

\* UPDATE chunks SET embedding_status = %s WHERE id = %s
update_chunk_status(chs, chunk_id, status) ==
    {IF c.id = chunk_id THEN [c EXCEPT !.embedding_status = status] ELSE c : c \in chs}

\* sum(chunk_stats.values())
SumStats(stats) == stats.completed + stats.pending + stats.processing + stats.failed

\* ORDER BY c.chunk_index: every order of the rows that is ascending in
\* chunk_index (equal indexes in any order)
OrderedByChunkIndex(rows) ==
    {s \in [1..Cardinality(rows) -> rows] :
        \A i, j \in 1..Cardinality(rows) :
           i < j => s[i] # s[j] /\ s[i].chunk_index <= s[j].chunk_index}

\* get_vector_ids: e.id of the embeddings joined to the document's completed
\* chunks, in chunk order
get_vector_ids(chs, embs, document_id) ==
    LET joined == {[id |-> e.id, chunk_index |-> c.chunk_index] :
                     <<e, c>> \in {p \in embs \X chs :
                                      /\ p[1].chunk_id = p[2].id
                                      /\ p[2].document_id = document_id
                                      /\ p[2].embedding_status = "completed"}}
    IN {[i \in 1..Len(s) |-> s[i].id] : s \in OrderedByChunkIndex(joined)}

\* get_document_chunks: chunks LEFT JOIN embeddings, in chunk order; a chunk
\* without an embedding has embedding_id NULL (<<>>)
get_document_chunks(chs, embs, document_id) ==
    LET joined == {[id |-> c.id, chunk_index |-> c.chunk_index,
                    chunk_text |-> c.chunk_text, char_count |-> c.char_count,
                    embedding_status |-> c.embedding_status,
                    embedding_id |-> IF \E e \in embs : e.chunk_id = c.id
                                     THEN (CHOOSE e \in embs : e.chunk_id = c.id).id
                                     ELSE <<>>] :
                     c \in {c \in chs : c.document_id = document_id}}
    IN OrderedByChunkIndex(joined)

\* round(completed / total * 100): the nearest integer, a half to the even one
RoundPercent(completed, total) ==
    LET q == (100 * completed) \div total
        r2 == 2 * ((100 * completed) % total)
    IN IF r2 < total THEN q
       ELSE IF r2 > total THEN q + 1
       ELSE IF q % 2 = 0 THEN q ELSE q + 1

\* GET /api/v1/documents/{document_id}/status
GetDocumentStatus(d) ==
    /\ LET stats == get_chunk_statistics(documents, d)
       IN qr' = IF d \notin DOMAIN documents
                THEN [NoQuery EXCEPT !.op = "status", !.document_id = d, !.status = 404]
                ELSE [NoQuery EXCEPT !.op = "status", !.document_id = d, !.status = 200,
                                     !.state = documents[d].processing_status,
                                     !.total = documents[d].chunk_count,
                                     !.completed = stats.completed,
                                     !.pending = stats.pending,
                                     !.processing = stats.processing,
                                     !.failed = stats.failed]
    /\ UNCHANGED <<service, store, rq, faults, ck, sr, resp, tg, th, ev, rl, eb>>

\* GET /api/v1/documents/{document_id}/vector-status
GetVectorStatus(d) ==
    /\ LET stats == get_chunk_statistics(documents, d)
           total_chunks == SumStats(stats)
           indexed_chunks == stats.completed
       IN \E vector_ids \in get_vector_ids(chunks, embeddings, d) :
             qr' = [NoQuery EXCEPT !.op = "vector-status", !.document_id = d,
                                   !.status = 200,
                                   !.total = total_chunks,
                                   !.completed = indexed_chunks,
                                   !.ids = vector_ids,
                                   !.state = IF indexed_chunks = 0 THEN "failed"
                                             ELSE IF indexed_chunks < total_chunks
                                             THEN "partial" ELSE "completed"]
    /\ UNCHANGED <<service, store, rq, faults, ck, sr, resp, tg, th, ev, rl, eb>>

\* GET /api/v1/documents/{document_id}/chunks
GetDocumentChunks(d) ==
    /\ \E rows \in get_document_chunks(chunks, embeddings, d) :
          qr' = [NoQuery EXCEPT !.op = "chunks", !.document_id = d, !.status = 200,
                                !.total = Len(rows), !.chunks = rows]
    /\ UNCHANGED <<service, store, rq, faults, ck, sr, resp, tg, th, ev, rl, eb>>

\* GET /api/v1/documents/{document_id}/embedding-stats
GetEmbeddingStats(d) ==
    /\ LET stats == get_chunk_statistics(documents, d)
           total == SumStats(stats)
       IN \E rows \in get_document_chunks(chunks, embeddings, d) :
             qr' = [NoQuery EXCEPT !.op = "embedding-stats", !.document_id = d,
                                   !.status = 200,
                                   !.total = total,
                                   !.completed = stats.completed,
                                   !.pending = stats.pending,
                                   !.failed = stats.failed,
                                   !.percentage = IF total > 0
                                                  THEN RoundPercent(stats.completed, total)
                                                  ELSE 0,
                                   !.chunks = rows]
    /\ UNCHANGED <<service, store, rq, faults, ck, sr, resp, tg, th, ev, rl, eb>>

\* the statuses a caller of update_chunk_status sets after a chunk's embedding
\* was attempted again
ChunkStatuses == {"processing", "failed"}

\* db.update_chunk_status(chunk_id, status), on a chunk row of the store
UpdateChunkStatus(chunk_id, status) ==
    /\ \E c \in chunks : c.id = chunk_id /\ c.embedding_status # status
    /\ chunks' = update_chunk_status(chunks, chunk_id, status)
    /\ UNCHANGED <<service, documents, embeddings, next_chunk_id, clock, rq, faults, calls>>

\* processing, the document endpoints and delete, one handler at a time
NextDocs ==
    \/ \E r \in 1..MaxRequests : ProcessDocument(r)
    \/ \E d \in DocIds :
          \/ GetDocumentStatus(d)
          \/ GetVectorStatus(d)
          \/ GetDocumentChunks(d)
          \/ GetEmbeddingStats(d)
          \/ DeleteDocument(d)

SpecDocs == InitQuery /\ [][NextDocs]_vars

\* processing, changes of a chunk's status, and the status endpoint
NextStatus ==
    \/ \E r \in 1..MaxRequests : ProcessDocument(r)
    \/ \E c \in chunks, status \in ChunkStatuses : UpdateChunkStatus(c.id, status)
    \/ \E d \in DocIds : GetDocumentStatus(d)

SpecStatus == InitQuery /\ [][NextStatus]_vars

---------------------------------------------------------------------------
(* chunking_service.chunk_text called on its own, over all short texts *)

InitChunk ==
    /\ settings = [cache_enabled |-> TRUE, cache_size |-> MaxCacheSize]
    /\ artifact = "ok"
    /\ svc = [model |-> "None", initialized |-> FALSE, cache |-> <<>>,
              cache_hits |-> 0, cache_misses |-> 0,
              total_requests |-> 0, total_embeddings |-> 0]
    /\ nops = 0 /\ last = NoOp /\ repeat = FALSE /\ inserted = <<>>
    /\ documents = <<>> /\ chunks = {} /\ embeddings = {}
    /\ next_chunk_id = 1 /\ clock = 0
    /\ rq = [r \in 1..MaxRequests |-> NoRequest]
    /\ faults = 0
    /\ ck \in [text : ChunkInputs, out : {<<>>}, done : {FALSE}]
    /\ sr = NoSearch
    /\ resp = NoResponse
    /\ qr = NoQuery /\ tg = NoTagging /\ th = NoThreads /\ ev = NoHandlers /\ rl = NoLimiter /\ eb = NoEmbed

ChunkText ==
    /\ ~ck.done
    /\ ck' = [ck EXCEPT !.out = chunk_text(ck.text), !.done = TRUE]
    /\ UNCHANGED <<service, store, rq, faults, sr, resp, qr, tg, th, ev, rl, eb>>

NextChunk == ChunkText

SpecChunk == InitChunk /\ [][NextChunk]_vars

---------------------------------------------------------------------------
(* tagging_service.tag_chunk called on its own, over texts made of words *)

MaxTagWords == 3

\* the words the texts are made of: trigger phrases of every framework of the
\* table, two of them in capitals, and filler
TagWords ==
    { <<"s", "o", "c", " ", "2">>, <<"i", "s", "m", "s">>, <<"I", "S", "M", "S">>,
      <<"g", "d", "p", "r">>, <<"p", "r", "i", "v", "a", "c", "y">>,
      <<"h", "i", "p", "a", "a">>, <<"p", "h", "i">>, <<"P", "h", "i">>,
      <<"p", "c", "i", " ", "d", "s", "s">>, <<"x">>, <<" ">> }

RECURSIVE ConcatWords(_)
ConcatWords(words) ==
    IF words = <<>> THEN <<>> ELSE Head(words) \o ConcatWords(Tail(words))

TagInputs ==
    { ConcatWords(ws) : ws \in UNION { [1..n -> TagWords] : n \in 0..MaxTagWords } }

InitTag ==
    /\ settings = [cache_enabled |-> TRUE, cache_size |-> MaxCacheSize]
    /\ artifact = "ok"
    /\ svc = [model |-> "None", initialized |-> FALSE, cache |-> <<>>,
              cache_hits |-> 0, cache_misses |-> 0,
              total_requests |-> 0, total_embeddings |-> 0]
    /\ nops = 0 /\ last = NoOp /\ repeat = FALSE /\ inserted = <<>>
    /\ documents = <<>> /\ chunks = {} /\ embeddings = {}
    /\ next_chunk_id = 1 /\ clock = 0
    /\ rq = [r \in 1..MaxRequests |-> NoRequest]
    /\ faults = 0
    /\ ck = NoChunking /\ sr = NoSearch /\ resp = NoResponse /\ qr = NoQuery
    /\ tg \in [text : TagInputs, out : {NoTagging.out}, done : {FALSE}]
    /\ th = NoThreads /\ ev = NoHandlers /\ rl = NoLimiter /\ eb = NoEmbed

TagChunk ==
    /\ ~tg.done
    /\ tg' = [tg EXCEPT !.out = tag_chunk(tg.text), !.done = TRUE]
    /\ UNCHANGED <<service, store, rq, faults, ck, sr, resp, qr, th, ev, rl, eb>>

NextTag == TagChunk

SpecTag == InitTag /\ [][NextTag]_vars

---------------------------------------------------------------------------
(* generate_embeddings run by two executor threads at once: one action per *)
(* access to the singleton's fields, which no lock protects                *)

\* the singleton as start-up leaves it
FreshService ==
    [model |-> "None", initialized |-> FALSE, cache |-> <<>>,
     cache_hits |-> 0, cache_misses |-> 0, total_requests |-> 0, total_embeddings |-> 0]

\* the singleton before the two calls: fresh, or after one earlier call
WarmServices ==
    {FreshService}
        \cup {generate_embeddings(FreshService, b, TRUE, 0, TRUE).svc : b \in AllBatches}

InitThreads ==
    /\ settings \in [cache_enabled : {TRUE}, cache_size : 1..MaxCacheSize]
    /\ artifact = "ok"
    /\ svc \in WarmServices
    /\ nops = 0 /\ last = NoOp /\ repeat = FALSE /\ inserted = <<>>
    /\ documents = <<>> /\ chunks = {} /\ embeddings = {}
    /\ next_chunk_id = 1 /\ clock = 0
    /\ rq = [r \in 1..MaxRequests |-> NoRequest]
    /\ faults = 0
    /\ ck = NoChunking /\ sr = NoSearch /\ resp = NoResponse /\ qr = NoQuery /\ tg = NoTagging
    /\ th = NoThreads /\ ev = NoHandlers /\ rl = NoLimiter /\ eb = NoEmbed

\* the exception leaves generate_embeddings
Raise(t, error) == th' = [th EXCEPT ![t].pc = "raised", ![t].error = error]

\* loop.run_in_executor(None, partial(self.generate_embeddings, texts, True, None))
ThBegin(t) ==
    /\ th[t].pc = "idle"
    /\ \E texts \in AllBatches :
          th' = [th EXCEPT ![t].pc = "start", ![t].texts = texts]
    /\ UNCHANGED <<service, store, rq, faults, ck, sr, resp, qr, tg, ev, rl, eb>>

\* if self._model is None: self.load_model()
ThStart(t) ==
    /\ th[t].pc = "start"
    /\ th' = [th EXCEPT ![t].pc = IF svc.model = "None" THEN "construct" ELSE "check"]
    /\ UNCHANGED <<service, store, rq, faults, ck, sr, resp, qr, tg, ev, rl, eb>>

\* load_model: self._model = SentenceTransformer(...)
ThConstruct(t) ==
    /\ th[t].pc = "construct"
    /\ IF artifact = "load_error"
       THEN /\ svc' = [svc EXCEPT !.model = "None", !.initialized = FALSE]
            /\ Raise(t, "RuntimeError")
       ELSE /\ svc' = [svc EXCEPT !.model = "loaded"]
            /\ th' = [th EXCEPT ![t].pc = "verify"]
    /\ UNCHANGED <<settings, artifact, nops, last, repeat, inserted, store, rq, faults, ck, sr, resp, qr, tg, ev, rl, eb>>

\* load_model: the test encoding, the dimension check, self._initialized = True
ThVerify(t) ==
    /\ th[t].pc = "verify"
    /\ IF artifact = "ok"
       THEN /\ svc' = [svc EXCEPT !.initialized = TRUE]
            /\ th' = [th EXCEPT ![t].pc = "check"]
       ELSE /\ svc' = [svc EXCEPT !.model = "None", !.initialized = FALSE]
            /\ Raise(t, "RuntimeError")
    /\ UNCHANGED <<settings, artifact, nops, last, repeat, inserted, store, rq, faults, ck, sr, resp, qr, tg, ev, rl, eb>>

\* if not self._initialized or self._model is None: raise; then the read of
\* self._total_requests += 1
ThCheck(t) ==
    /\ th[t].pc = "check"
    /\ IF ~svc.initialized \/ svc.model = "None"
       THEN Raise(t, "RuntimeError")
       ELSE th' = [th EXCEPT ![t].pc = "count_requests", ![t].acc = svc.total_requests]
    /\ UNCHANGED <<service, store, rq, faults, ck, sr, resp, qr, tg, ev, rl, eb>>

\* the write of self._total_requests += 1, the read of self._total_embeddings += len(texts)
ThCountRequests(t) ==
    /\ th[t].pc = "count_requests"
    /\ svc' = [svc EXCEPT !.total_requests = th[t].acc + 1]
    /\ th' = [th EXCEPT ![t].pc = "count_embeddings", ![t].acc = svc.total_embeddings]
    /\ UNCHANGED <<settings, artifact, nops, last, repeat, inserted, store, rq, faults, ck, sr, resp, qr, tg, ev, rl, eb>>

\* the write of self._total_embeddings += len(texts)
ThCountEmbeddings(t) ==
    /\ th[t].pc = "count_embeddings"
    /\ svc' = [svc EXCEPT !.total_embeddings = th[t].acc + Len(th[t].texts)]
    /\ th' = [th EXCEPT ![t].pc = "lookup", ![t].idx = 1, ![t].acc = 0]
    /\ UNCHANGED <<settings, artifact, nops, last, repeat, inserted, store, rq, faults, ck, sr, resp, qr, tg, ev, rl, eb>>

\* for idx, text in enumerate(texts): _get_from_cache up to the test
\* `cache_key in self._cache` and the read of the counter it increments;
\* after the last text, return when nothing is left to generate
ThLookup(t) ==
    /\ th[t].pc = "lookup"
    /\ LET c == th[t]
       IN IF c.idx > Len(c.texts)
          THEN IF c.to_generate = <<>>
               THEN th' = [th EXCEPT ![t].pc = "returned",
                                     ![t].result = SelectSeq(c.embeddings, LAMBDA e : e # None)]
               ELSE th' = [th EXCEPT ![t].pc = "encode"]
          ELSE IF ~settings.cache_enabled
          THEN th' = [th EXCEPT ![t].idx = c.idx + 1,
                                ![t].embeddings = Append(c.embeddings, None),
                                ![t].to_generate = Append(c.to_generate, c.idx)]
          ELSE IF compute_cache_key(c.texts[c.idx], TRUE) \in CacheKeys(svc.cache)
          THEN th' = [th EXCEPT ![t].pc = "hit", ![t].acc = svc.cache_hits]
          ELSE th' = [th EXCEPT ![t].pc = "miss", ![t].acc = svc.cache_misses]
    /\ UNCHANGED <<service, store, rq, faults, ck, sr, resp, qr, tg, ev, rl, eb>>

\* self._cache_hits += 1 (the write); return self._cache[cache_key], a
\* KeyError when the entry was evicted since the test
ThHit(t) ==
    /\ th[t].pc = "hit"
    /\ svc' = [svc EXCEPT !.cache_hits = th[t].acc + 1]
    /\ LET c == th[t]
           k == compute_cache_key(c.texts[c.idx], TRUE)
       IN IF k \in CacheKeys(svc.cache)
          THEN th' = [th EXCEPT ![t].pc = "lookup", ![t].idx = c.idx + 1, ![t].acc = 0,
                                ![t].embeddings = Append(c.embeddings, CacheValue(svc.cache, k))]
          ELSE Raise(t, "KeyError")
    /\ UNCHANGED <<settings, artifact, nops, last, repeat, inserted, store, rq, faults, ck, sr, resp, qr, tg, ev, rl, eb>>

\* self._cache_misses += 1 (the write); return None
ThMiss(t) ==
    /\ th[t].pc = "miss"
    /\ svc' = [svc EXCEPT !.cache_misses = th[t].acc + 1]
    /\ LET c == th[t]
       IN th' = [th EXCEPT ![t].pc = "lookup", ![t].idx = c.idx + 1, ![t].acc = 0,
                           ![t].embeddings = Append(c.embeddings, None),
                           ![t].to_generate = Append(c.to_generate, c.idx)]
    /\ UNCHANGED <<settings, artifact, nops, last, repeat, inserted, store, rq, faults, ck, sr, resp, qr, tg, ev, rl, eb>>

\* generated = self._model.encode(list(texts_batch), ...); the vectors of
\* thread t's call carry t
ThEncode(t) ==
    /\ th[t].pc = "encode"
    /\ LET c == th[t]
       IN th' = [th EXCEPT ![t].pc = "store", ![t].j = 1,
                           ![t].generated = [j \in 1..Len(c.to_generate) |->
                                                Encode(c.texts[c.to_generate[j]], TRUE, t)]]
    /\ UNCHANGED <<service, store, rq, faults, ck, sr, resp, qr, tg, ev, rl, eb>>

\* for idx, embedding_array in zip(indices, generated): embeddings[idx] = ...,
\* then _add_to_cache up to the test len(self._cache) >= cache_size; after the
\* last one, return
ThStore(t) ==
    /\ th[t].pc = "store"
    /\ LET c == th[t]
       IN IF c.j > Len(c.to_generate)
          THEN th' = [th EXCEPT ![t].pc = "returned",
                                ![t].result = SelectSeq(c.embeddings, LAMBDA e : e # None)]
          ELSE LET out == [c.embeddings EXCEPT ![c.to_generate[c.j]] = c.generated[c.j]]
               IN IF ~settings.cache_enabled
                  THEN th' = [th EXCEPT ![t].embeddings = out, ![t].j = c.j + 1]
                  ELSE IF Len(svc.cache) >= settings.cache_size
                  THEN th' = [th EXCEPT ![t].embeddings = out, ![t].pc = "evict_pick"]
                  ELSE th' = [th EXCEPT ![t].embeddings = out, ![t].pc = "set"]
    /\ UNCHANGED <<service, store, rq, faults, ck, sr, resp, qr, tg, ev, rl, eb>>

\* first_key = next(iter(self._cache)), StopIteration on an empty dict
ThEvictPick(t) ==
    /\ th[t].pc = "evict_pick"
    /\ IF svc.cache = <<>>
       THEN Raise(t, "StopIteration")
       ELSE th' = [th EXCEPT ![t].pc = "evict_del", ![t].first_key = svc.cache[1].key]
    /\ UNCHANGED <<service, store, rq, faults, ck, sr, resp, qr, tg, ev, rl, eb>>

\* del self._cache[first_key], a KeyError when the key is gone
ThEvictDel(t) ==
    /\ th[t].pc = "evict_del"
    /\ IF th[t].first_key \in CacheKeys(svc.cache)
       THEN /\ svc' = [svc EXCEPT !.cache = SelectSeq(@, LAMBDA e : e.key # th[t].first_key)]
            /\ th' = [th EXCEPT ![t].pc = "set", ![t].first_key = <<>>]
       ELSE /\ svc' = svc
            /\ Raise(t, "KeyError")
    /\ UNCHANGED <<settings, artifact, nops, last, repeat, inserted, store, rq, faults, ck, sr, resp, qr, tg, ev, rl, eb>>

\* self._cache[cache_key] = embedding
ThSet(t) ==
    /\ th[t].pc = "set"
    /\ LET c == th[t]
           idx == c.to_generate[c.j]
       IN /\ svc' = [svc EXCEPT !.cache = DictSet(@, compute_cache_key(c.texts[idx], TRUE),
                                                  c.generated[c.j])]
          /\ th' = [th EXCEPT ![t].pc = "store", ![t].j = c.j + 1]
    /\ UNCHANGED <<settings, artifact, nops, last, repeat, inserted, store, rq, faults, ck, sr, resp, qr, tg, ev, rl, eb>>

NextThreads ==
    \E t \in Threads :
       \/ ThBegin(t) \/ ThStart(t) \/ ThConstruct(t) \/ ThVerify(t) \/ ThCheck(t)
       \/ ThCountRequests(t) \/ ThCountEmbeddings(t) \/ ThLookup(t) \/ ThHit(t) \/ ThMiss(t)
       \/ ThEncode(t) \/ ThStore(t) \/ ThEvictPick(t) \/ ThEvictDel(t) \/ ThSet(t)

SpecThreads == InitThreads /\ [][NextThreads]_vars

---------------------------------------------------------------------------
(* POST /process requests in flight together, each one's generate_embeddings *)
(* call running on its executor thread; no database statement fails         *)

InitPair ==
    /\ settings \in [cache_enabled : {TRUE}, cache_size : 1..MaxCacheSize]
    /\ artifact = "ok"
    /\ svc = FreshService
    /\ nops = 0 /\ last = NoOp /\ repeat = FALSE /\ inserted = <<>>
    /\ documents = <<>> /\ chunks = {} /\ embeddings = {}
    /\ next_chunk_id = 1 /\ clock = 0
    /\ rq = [r \in 1..MaxRequests |-> NoRequest]
    /\ faults = MaxFaults
    /\ ck = NoChunking /\ sr = NoSearch /\ resp = NoResponse /\ qr = NoQuery /\ tg = NoTagging
    /\ th = NoThreads /\ ev = NoHandlers /\ rl = NoLimiter /\ eb = NoEmbed

\* await embedding_service.generate_embeddings_async(chunk_texts): the call is
\* handed to the executor and the handler is suspended
EmbedSubmit(r) ==
    /\ rq[r].pc = "embed"
    /\ th[r].pc = "idle"
    /\ th' = [th EXCEPT ![r].pc = "start",
                        ![r].texts = [i \in 1..Len(rq[r].chunks) |-> rq[r].chunks[i].chunk_text]]
    /\ rq' = [rq EXCEPT ![r].pc = "embedding"]
    /\ UNCHANGED <<service, store, faults, ck, sr, resp, qr, tg, ev, rl, eb>>

\* the executor's future completes and the handler resumes: with the vectors,
\* tagging and the entry of store_embeddings, or in `except Exception`
EmbedResume(r) ==
    /\ rq[r].pc = "embedding"
    /\ th[r].pc \in {"returned", "raised"}
    /\ IF th[r].pc = "raised"
       THEN Fail(r, "generate_embeddings") /\ UNCHANGED clock
       ELSE /\ rq' = [rq EXCEPT ![r].embeddings = th[r].result,
                                ![r].pc = "store_embeddings",
                                ![r].now = clock + 1]
            /\ clock' = clock + 1
    /\ UNCHANGED <<service, documents, chunks, embeddings, next_chunk_id, faults, ck, sr, resp, qr, tg, th, ev, rl, eb>>

NextPair ==
    \E r \in 1..MaxRequests :
       \/ StoreDocument(r) \/ StoreChunk(r) \/ EmbedSubmit(r)
       \/ ThStart(r) \/ ThConstruct(r) \/ ThVerify(r) \/ ThCheck(r)
       \/ ThCountRequests(r) \/ ThCountEmbeddings(r) \/ ThLookup(r) \/ ThHit(r) \/ ThMiss(r)
       \/ ThEncode(r) \/ ThStore(r) \/ ThEvictPick(r) \/ ThEvictDel(r) \/ ThSet(r)
       \/ EmbedResume(r)
       \/ StoreEmbedding(r) \/ UpdateChunks(r) \/ UpdateDocument(r)

SpecPair == InitPair /\ [][NextPair]_vars

---------------------------------------------------------------------------
(* The event loop of a worker process: the handlers that generate          *)
(* embeddings, cut into the segments that run on the loop and the calls    *)
(* they await                                                              *)

\* The handlers. A segment is code the handler runs on the loop ("sync") or
\* a call it awaits while the loop is free ("await"); model_call marks the
\* segment that runs self._model.encode.
Handlers ==
    [ embed |->
        << [what |-> "is_ready / load_model", kind |-> "sync", model_call |-> FALSE],
           [what |-> "generate_embeddings", kind |-> "sync", model_call |-> TRUE],
           [what |-> "get_model_info", kind |-> "sync", model_call |-> FALSE] >>,
      process |->
        << [what |-> "store_document", kind |-> "await", model_call |-> FALSE],
           [what |-> "chunk_text", kind |-> "sync", model_call |-> FALSE],
           [what |-> "store_chunks", kind |-> "await", model_call |-> FALSE],
           [what |-> "generate_embeddings_async", kind |-> "await", model_call |-> TRUE],
           [what |-> "tag_chunk", kind |-> "sync", model_call |-> FALSE],
           [what |-> "store_embeddings", kind |-> "await", model_call |-> FALSE] >>,
      search |->
        << [what |-> "generate_embeddings_async", kind |-> "await", model_call |-> TRUE],
           [what |-> "search_similar", kind |-> "await", model_call |-> FALSE] >>,
      test_search |->
        << [what |-> "generate_embeddings_async", kind |-> "await", model_call |-> TRUE],
           [what |-> "psycopg2 query", kind |-> "sync", model_call |-> FALSE] >> ]

Paths == DOMAIN Handlers

\* some handler is running on the loop
LoopBusy == \E r \in 1..MaxRequests : ev[r].phase = "running"

\* the handler at segment k: past the last segment it has responded; a sync
\* segment runs on the loop; an awaited call runs off the loop
AtSegment(path, k) ==
    [path |-> path, k |-> k,
     phase |-> IF k > Len(Handlers[path]) THEN "done"
               ELSE IF Handlers[path][k].kind = "sync" THEN "running" ELSE "waiting"]

InitLoop ==
    /\ settings = [cache_enabled |-> TRUE, cache_size |-> MaxCacheSize]
    /\ artifact = "ok"
    /\ svc = FreshService
    /\ nops = 0 /\ last = NoOp /\ repeat = FALSE /\ inserted = <<>>
    /\ documents = <<>> /\ chunks = {} /\ embeddings = {}
    /\ next_chunk_id = 1 /\ clock = 0
    /\ rq = [r \in 1..MaxRequests |-> NoRequest]
    /\ faults = 0
    /\ ck = NoChunking /\ sr = NoSearch /\ resp = NoResponse /\ qr = NoQuery /\ tg = NoTagging
    /\ th = NoThreads
    /\ ev = NoHandlers /\ rl = NoLimiter /\ eb = NoEmbed

\* the loop, when free, starts the handler of a request that has arrived and
\* runs it up to its first segment
LoopBegin(r) ==
    /\ ev[r].phase = "idle"
    /\ ~LoopBusy
    /\ \E path \in Paths : ev' = [ev EXCEPT ![r] = AtSegment(path, 1)]
    /\ UNCHANGED <<service, store, rq, faults, ck, sr, resp, qr, tg, th, rl, eb>>

\* the handler finishes the sync segment it is running and goes on
LoopRun(r) ==
    /\ ev[r].phase = "running"
    /\ ev' = [ev EXCEPT ![r] = AtSegment(ev[r].path, ev[r].k + 1)]
    /\ UNCHANGED <<service, store, rq, faults, ck, sr, resp, qr, tg, th, rl, eb>>

\* the awaited call finishes in its executor thread or in the database
AwaitedCompletes(r) ==
    /\ ev[r].phase = "waiting"
    /\ ev' = [ev EXCEPT ![r].phase = "ready"]
    /\ UNCHANGED <<service, store, rq, faults, ck, sr, resp, qr, tg, th, rl, eb>>

\* the loop, when free, resumes a handler whose awaited call has finished
LoopResume(r) ==
    /\ ev[r].phase = "ready"
    /\ ~LoopBusy
    /\ ev' = [ev EXCEPT ![r] = AtSegment(ev[r].path, ev[r].k + 1)]
    /\ UNCHANGED <<service, store, rq, faults, ck, sr, resp, qr, tg, th, rl, eb>>

NextLoop ==
    \E r \in 1..MaxRequests :
       LoopBegin(r) \/ LoopRun(r) \/ AwaitedCompletes(r) \/ LoopResume(r)

SpecLoop == InitLoop /\ [][NextLoop]_vars

---------------------------------------------------------------------------
(* GET /health/ready beside the service's operations *)

\* readiness_check's response. The handler returns a dict when the service
\* is ready and the tuple (dict, 503) when it is not; the framework encodes
\* whatever the handler returns as the JSON body and sends it with the
\* route's status_code, 200: the 503 ends up as the second element of the
\* body. state is the "status" entry of the dict, ids what the body holds
\* after the dict.
readiness_check(s) ==
    IF ~is_ready(s)
    THEN [status |-> 200, state |-> "not_ready", ids |-> <<503>>]
    ELSE [status |-> 200, state |-> "ready", ids |-> <<>>]

ReadinessCheck ==
    /\ LET a == readiness_check(svc)
       IN qr' = [NoQuery EXCEPT !.op = "ready", !.status = a.status, !.state = a.state,
                                !.ids = a.ids]
    /\ UNCHANGED <<service, store, rq, faults, ck, sr, resp, tg, th, ev, rl, eb>>

NextHealth == Next \/ ReadinessCheck

SpecHealth == Init /\ [][NextHealth]_vars

---------------------------------------------------------------------------
(* The RateLimiter of app/auth.py, called by verify_api_key on the event   *)
(* loop: each call runs to its end before another starts                   *)

\* the 60 seconds of the window, in ticks of the model's time
RateWindow == 2

\* the largest time.time() of a behaviour, and the largest rate_limit_per_minute
MaxTime == 4

MaxLimit == 2

\* [ts for ts in self._requests[api_key] if ts > minute_ago]
recent(timestamps, now) == SelectSeq(timestamps, LAMBDA ts : ts > now - RateWindow)

\* a check that records the request also when it rejects it
check_rate_limit_recording_all(requests, api_key, limit_per_minute, now) ==
    LET cleaned == recent(requests[api_key], now)
    IN [requests |-> [requests EXCEPT ![api_key] = Append(cleaned, now)],
        result |-> Len(cleaned) < limit_per_minute]

\* check_rate_limit: the dict after the call and the bool returned
check_rate_limit(requests, api_key, limit_per_minute, now) ==
    LET cleaned == recent(requests[api_key], now)
    IN IF Len(cleaned) >= limit_per_minute
       THEN [requests |-> [requests EXCEPT ![api_key] = cleaned], result |-> FALSE]
       ELSE [requests |-> [requests EXCEPT ![api_key] = Append(cleaned, now)],
             result |-> TRUE]

\* get_current_usage: the dict after the call and the int returned
get_current_usage(requests, api_key, now) ==
    LET cleaned == recent(requests[api_key], now)
    IN [requests |-> [requests EXCEPT ![api_key] = cleaned], result |-> Len(cleaned)]

InitRate ==
    /\ settings = [cache_enabled |-> TRUE, cache_size |-> MaxCacheSize]
    /\ artifact = "ok"
    /\ svc = FreshService
    /\ nops = 0 /\ last = NoOp /\ repeat = FALSE /\ inserted = <<>>
    /\ documents = <<>> /\ chunks = {} /\ embeddings = {}
    /\ next_chunk_id = 1 /\ clock = 0
    /\ rq = [r \in 1..MaxRequests |-> NoRequest]
    /\ faults = 0
    /\ ck = NoChunking /\ sr = NoSearch /\ resp = NoResponse /\ qr = NoQuery /\ tg = NoTagging
    /\ th = NoThreads /\ ev = NoHandlers
    /\ rl \in {[NoLimiter EXCEPT !.limit_per_minute = l] : l \in 1..MaxLimit}
    /\ eb = NoEmbed

\* time passes between two calls
Tick ==
    /\ rl.now < MaxTime
    /\ rl' = [rl EXCEPT !.now = @ + 1]
    /\ UNCHANGED <<service, store, rq, faults, ck, sr, resp, qr, tg, th, ev, eb>>

\* rate_limiter.check_rate_limit(api_key, settings.rate_limit_per_minute);
\* accepted is history: the times of the calls that returned True
CheckRateLimit(api_key) ==
    /\ LET c == check_rate_limit(rl.requests, api_key, rl.limit_per_minute, rl.now)
       IN rl' = [rl EXCEPT !.requests = c.requests,
                           !.accepted[api_key] = IF c.result THEN Append(@, rl.now) ELSE @,
                           !.last = [op |-> "check", api_key |-> api_key, at |-> rl.now,
                                     result |-> IF c.result THEN 1 ELSE 0,
                                     before |-> rl.requests[api_key]]]
    /\ UNCHANGED <<service, store, rq, faults, ck, sr, resp, qr, tg, th, ev, eb>>

\* rate_limiter.get_current_usage(api_key)
GetCurrentUsage(api_key) ==
    /\ LET u == get_current_usage(rl.requests, api_key, rl.now)
       IN rl' = [rl EXCEPT !.requests = u.requests,
                           !.last = [op |-> "usage", api_key |-> api_key, at |-> rl.now,
                                     result |-> u.result,
                                     before |-> rl.requests[api_key]]]
    /\ UNCHANGED <<service, store, rq, faults, ck, sr, resp, qr, tg, th, ev, eb>>

NextRate ==
    \/ Tick
    \/ \E api_key \in ApiKeys : CheckRateLimit(api_key) \/ GetCurrentUsage(api_key)

SpecRate == InitRate /\ [][NextRate]_vars

---------------------------------------------------------------------------
(* POST /embed (routes/embeddings.py) beside the service's operations *)

\* POST /embed requests in one behaviour
MaxEmbeds == 2

\* settings.max_batch_size (default 32), scaled to the model's batches
max_batch_size == 2

\* settings.max_text_length (default 8192), scaled to the model's texts
max_text_length == 7

\* the texts of a request body: the service's texts, an empty text, a text
\* of whitespace only
EmbedTexts == Texts \cup {<<>>, <<" ", "\n">>}

\* the lists of a request body, up to one text more than max_batch_size
RECURSIVE EmbedBatches(_)
EmbedBatches(n) ==
    IF n = 0 THEN {<<>>}
    ELSE LET shorter == EmbedBatches(n - 1)
         IN shorter \cup {Append(b, t) : b \in {s \in shorter : Len(s) = n - 1}, t \in EmbedTexts}

\* what verify_api_key does with the X-API-Key header: a configured key within
\* its rate limit is passed, a missing or unknown key raises 401, a key over
\* its limit raises 429
Credentials == {"valid", "missing", "limited"}

verify_api_key(credentials) ==
    IF credentials = "valid" THEN 200 ELSE IF credentials = "limited" THEN 429 ELSE 401

\* a validator that does not look at the texts one by one
validate_texts_counting_only(v) == Len(v) >= 1 /\ Len(v) <= max_batch_size

\* EmbeddingRequest: min_items=1 on texts, then validate_texts: the number of
\* texts, then each text non-empty after strip() and not too long. TRUE when
\* the body is accepted; a ValueError becomes a RequestValidationError.
validate_texts(v) ==
    /\ Len(v) >= 1
    /\ Len(v) <= max_batch_size
    /\ \A i \in 1..Len(v) :
          v[i] # <<>> /\ Strip(v[i]) # <<>> /\ Len(v[i]) <= max_text_length

\* The request from the dependency to the response. The dependency runs
\* first; a body that fails validation is answered 400 by
\* validation_exception_handler without the handler being entered; in the
\* handler a RuntimeError or any other exception becomes 500. invoked is
\* whether a method of the service was called.
post_embed(s, credentials, texts, normalize, gen, encode_ok) ==
    IF verify_api_key(credentials) # 200
    THEN [svc |-> s, status |-> verify_api_key(credentials), invoked |-> FALSE, misses |-> <<>>]
    ELSE IF ~validate_texts(texts)
    THEN [svc |-> s, status |-> 400, invoked |-> FALSE, misses |-> <<>>]
    ELSE LET l == IF is_ready(s) THEN [svc |-> s, raised |-> FALSE] ELSE load_model(s)
         IN IF l.raised
            THEN [svc |-> l.svc, status |-> 500, invoked |-> TRUE, misses |-> <<>>]
            ELSE LET g == generate_embeddings(l.svc, texts, normalize, gen, encode_ok)
                 IN [svc |-> g.svc,
                     status |-> IF g.outcome = "returned" THEN 200 ELSE 500,
                     invoked |-> TRUE,
                     misses |-> IF g.outcome = "returned" /\ settings.cache_enabled
                                THEN MissKeys(l.svc, texts, normalize) ELSE <<>>]

PostEmbed ==
    /\ nops < MaxOps
    /\ eb.n < MaxEmbeds
    /\ \E credentials \in Credentials, texts \in EmbedBatches(max_batch_size + 1),
          normalize \in BOOLEAN :
       \E encode_ok \in IF validate_texts(texts) /\ credentials = "valid"
                        THEN EncodeOutcomes(svc, texts, normalize) ELSE {TRUE} :
       \E a \in {post_embed(svc, credentials, texts, normalize, nops + 1, encode_ok)} :
          /\ svc' = a.svc
          /\ inserted' = inserted \o a.misses
          /\ eb' = [n |-> eb.n + 1, credentials |-> credentials, texts |-> texts,
                    normalize |-> normalize, status |-> a.status, invoked |-> a.invoked]
    /\ nops' = nops + 1
    /\ UNCHANGED <<settings, artifact, last, repeat, store, rq, faults>>
    /\ UNCHANGED <<ck, sr, resp, qr, tg, th, ev, rl>>

\* a service with the cache enabled, before its first request
InitEmbed ==
    /\ settings = [cache_enabled |-> TRUE, cache_size |-> MaxCacheSize]
    /\ artifact \in {"ok", "dim_mismatch", "load_error"}
    /\ svc = [model |-> "None", initialized |-> FALSE, cache |-> <<>>,
              cache_hits |-> 0, cache_misses |-> 0,
              total_requests |-> 0, total_embeddings |-> 0]
    /\ nops = 0 /\ last = NoOp /\ repeat = FALSE /\ inserted = <<>>
    /\ documents = <<>> /\ chunks = {} /\ embeddings = {}
    /\ next_chunk_id = 1 /\ clock = 0
    /\ rq = [r \in 1..MaxRequests |-> NoRequest]
    /\ faults = 0
    /\ ck = NoChunking /\ sr = NoSearch /\ resp = NoResponse /\ qr = NoQuery /\ tg = NoTagging
    /\ th = NoThreads /\ ev = NoHandlers /\ rl = NoLimiter /\ eb = NoEmbed

NextEmbed == PostEmbed \/ Construct \/ ClearCache

SpecEmbed == InitEmbed /\ [][NextEmbed]_vars

---------------------------------------------------------------------------
(* Properties of the embedding cache and generator *)

Returned == last.op = "generate" /\ last.outcome = "returned"

\* a vector made by the call recorded in `last` (not served from the cache)
Fresh(v) == v.gen = nops

KeyOf(i) == compute_cache_key(last.texts[i], last.normalize)

Pos(c, k) == CHOOSE i \in 1..Len(c) : c[i].key = k

\* C1: a call that returns gives exactly len(texts) vectors, and the vector at
\* position i is a vector of texts[i] under the call's normalize flag, whatever
\* mix of cache hits, misses and repeated texts the call had.
C1_OrderPreserved ==
    Returned =>
        /\ Len(last.result) = Len(last.texts)
        /\ \A i \in 1..Len(last.texts) :
              /\ last.result[i].text = last.texts[i]
              /\ last.result[i].normalize = last.normalize

\* a returned call of two texts, the first generated and the second a hit
C1_Witness ==
    /\ Returned
    /\ Len(last.texts) = 2
    /\ Fresh(last.result[1])
    /\ ~Fresh(last.result[2])

\* C2: with caching on, generate_embeddings([t], normalize=true) called twice in
\* a row returns the identical vector both times; over the second call
\* cache_hits grows by exactly 1 and cache_misses does not change.
FirstOfTwo ==
    /\ settings.cache_enabled
    /\ last.op = "generate" /\ last.outcome = "returned"
    /\ Len(last.texts) = 1 /\ last.normalize

C2_Idempotent ==
    [][ (FirstOfTwo /\ last'.op = "generate" /\ nops' = nops + 1
           /\ last'.texts = last.texts /\ last'.normalize)
        => /\ last'.outcome = "returned"
           /\ last'.result = last.result
           /\ svc'.cache_hits = svc.cache_hits + 1
           /\ svc'.cache_misses = svc.cache_misses ]_vars

\* the second of two such calls has returned
C2_Witness ==
    /\ repeat /\ settings.cache_enabled /\ Returned
    /\ Len(last.texts) = 1 /\ last.normalize

\* the writes since the cache was cleared name capacity + 1 distinct keys, each
\* key's writes being consecutive
DistinctInserted == {inserted[i] : i \in 1..Len(inserted)}

InsertedInRuns ==
    \A i, j \in 1..Len(inserted) :
        (i < j /\ inserted[i] = inserted[j]) =>
            \A m \in i..j : inserted[m] = inserted[i]

\* C3: from an empty cache of capacity N >= 1, once N + 1 distinct keys have
\* been inserted the cache holds exactly the N most recently inserted keys: the
\* first-inserted key is gone and no other.
C3_EvictsOnlyFirstInserted ==
    ( /\ settings.cache_enabled
      /\ settings.cache_size >= 1
      /\ InsertedInRuns
      /\ Cardinality(DistinctInserted) = settings.cache_size + 1 )
    => CacheKeys(svc.cache) = DistinctInserted \ {inserted[1]}

Pairs ==
    (Texts \cup {<<"a", ":", ":">>, <<"a", ":", ":", "F", "a", "l", "s", "e">>, <<>>}) \X BOOLEAN

C5_FlagInKey ==
    /\ \A p, q \in Pairs :
          compute_cache_key(p[1], p[2]) = compute_cache_key(q[1], q[2]) => p = q
    /\ \A i \in 1..Len(svc.cache) :
          svc.cache[i].key = compute_cache_key(svc.cache[i].value.text,
                                               svc.cache[i].value.normalize)
    /\ Returned => \A i \in 1..Len(last.result) :
                      last.result[i].normalize = last.normalize

\* the same text is cached under both flags and the call was served from it
C5_Witness ==
    /\ Returned
    /\ \E i \in 1..Len(svc.cache), j \in 1..Len(svc.cache) :
          /\ svc.cache[i].value.text = svc.cache[j].value.text
          /\ svc.cache[i].value.normalize /\ ~svc.cache[j].value.normalize
    /\ \E i \in 1..Len(last.result) : Fresh(last.result[i])

---------------------------------------------------------------------------
(* Properties of the document pipeline *)

Requests == 1..MaxRequests

Returned500(r) == rq[r].pc = "done" /\ rq[r].status = 500

InFlight(r) == rq[r].pc \notin {"idle", "done"}

\* r is the only request so far that names its document
OnlyRequestFor(r) ==
    \A r2 \in Requests \ {r} : rq[r2].document_id # rq[r].document_id

ChunkRowsOf(chs, d) == {c \in chs : c.document_id = d}

EmbeddingRowsOf(embs, d) == {e \in embs : e.document_id = d}

Stats(row) == <<row.chunk_count, row.embedding_count, row.processed_at>>

\* C6: when POST /process for a document ends in error, the document's
\* processing_status is 'failed' afterwards, and no document is left in
\* 'processing' once its request has returned: a row in 'processing' has a
\* request for it still running.
C6_FailedIsMarked ==
    /\ \A r \in Requests :
          ( /\ Returned500(r) /\ OnlyRequestFor(r)
            /\ rq[r].document_id \in DOMAIN documents )
          => documents[rq[r].document_id].processing_status = "failed"
    /\ \A d \in DOMAIN documents :
          documents[d].processing_status = "processing"
          => \E r \in Requests : InFlight(r) /\ rq[r].document_id = d

\* C7: once a document's processing_status is 'completed', no step other than
\* its deletion changes any field of its row; a repeated POST /process with
\* the same id leaves raw_text and processing_status as they were.
C7_CompletedIsFrozen ==
    [][\A d \in DOMAIN documents :
          documents[d].processing_status = "completed"
          => (d \notin DOMAIN documents' \/ documents'[d] = documents[d])]_vars

\* C8: store_chunks and store_embeddings are each all-or-nothing: after a call
\* of one of them has failed partway, none of the rows that call inserted and
\* none of the status updates it made remain in the store.
C8_AllOrNothing ==
    \A r \in Requests :
       LET ids == {rq[r].chunk_ids[i] : i \in 1..Len(rq[r].chunk_ids)}
       IN /\ (rq[r].pc = "done" /\ rq[r].failed_in = "store_chunks")
             => \A c \in chunks : c.id \notin ids
          /\ (rq[r].pc = "done" /\ rq[r].failed_in = "store_embeddings")
             => /\ \A e \in embeddings : e.chunk_id \notin ids
                /\ OnlyRequestFor(r)
                   => \A c \in chunks : c.id \in ids => c.embedding_status # "completed"

\* C9: chunk_count, embedding_count and processed_at of a document are written
\* only by a processing attempt that succeeds: the only step that changes them
\* on an existing row is the last statement of a request that then answers
\* 200, so every step of an attempt that fails leaves them as they were.
C9_StatsOnlyOnSuccess ==
    [][\A d \in DOMAIN documents \cap DOMAIN documents' :
          Stats(documents'[d]) # Stats(documents[d])
          => \E r \in Requests :
                /\ rq[r].document_id = d /\ rq[r].pc = "update_document"
                /\ rq'[r].pc = "done" /\ rq'[r].status = 200]_vars

\* a request that got past store_document on a row holding the statistics of
\* an earlier success has failed, and the statistics are still there
C9_Witness ==
    \E r \in Requests :
       /\ Returned500(r) /\ rq[r].failed_in # "store_document"
       /\ rq[r].document_id \in DOMAIN documents
       /\ documents[rq[r].document_id].processing_status = "processing"
       /\ documents[rq[r].document_id].chunk_count > 0
       /\ documents[rq[r].document_id].processed_at > 0

\* C10: when POST /process reports success, chunks_created is the number of
\* chunk rows stored for the document and embeddings_stored the number of
\* embedding rows stored for it, at the time of the response.
C10_CountsAreStoredRows ==
    [][\A r \in Requests :
          (rq[r].pc # "done" /\ rq'[r].pc = "done" /\ rq'[r].status = 200)
          => /\ rq'[r].chunks_created
                  = Cardinality(ChunkRowsOf(chunks', rq[r].document_id))
             /\ rq'[r].embeddings_stored
                  = Cardinality(EmbeddingRowsOf(embeddings', rq[r].document_id))]_vars

\* C11: in every reachable state of the store, the chunk rows of each
\* document have pairwise distinct chunk_index values that form exactly
\* 0..n-1, n the number of its chunk rows.
C11_ChunkIndexContiguous ==
    \A d \in DocIds :
       LET rows == ChunkRowsOf(chunks, d)
       IN /\ \A c1, c2 \in rows : c1.chunk_index = c2.chunk_index => c1 = c2
          /\ {c.chunk_index : c \in rows} = 0..(Cardinality(rows) - 1)

---------------------------------------------------------------------------
(* Properties of the chunker *)

\* C12: for every text that yields n >= 1 chunks, the chunks' chunk_index
\* values are 0, 1, ..., n-1 in output order and each chunk's char_count is
\* the length of its chunk_text.
C12_IndexAndCharCount ==
    ck.done =>
       \A i \in 1..Len(ck.out) :
          /\ ck.out[i].chunk_index = i - 1
          /\ ck.out[i].char_count = Len(ck.out[i].chunk_text)

\* a text of several chunks, the later ones with carried-over sentences
C12_Witness ==
    /\ ck.done /\ Len(ck.out) >= 3
    /\ ck.out[3].chunk_index = 2
    /\ ck.out[3].char_count > chunk_size

\* the sentences a chunk's text is joined from
SentencesOf(chunk) == split_sentences(chunk.chunk_text)

\* what the claims call the carried-over sentences of a sealed chunk: its last
\* two sentences when it has at least two, else its single sentence
CarriedOver(chunk) ==
    LET ss == SentencesOf(chunk)
    IN IF Len(ss) >= 2 THEN SubSeq(ss, Len(ss) - 1, Len(ss)) ELSE ss

\* index, among the text's sentences, of the last sentence of the i-th chunk
RECURSIVE LastSentenceOf(_, _)
LastSentenceOf(out, i) ==
    IF i = 1 THEN Len(SentencesOf(out[1]))
    ELSE LastSentenceOf(out, i - 1)
         + Len(SentencesOf(out[i])) - Len(CarriedOver(out[i - 1]))

IsPrefix(p, t) == Len(p) <= Len(t) /\ SubSeq(t, 1, Len(p)) = p

\* C13: for any two adjacent chunks, the later chunk's text begins with the
\* last two sentences of the earlier chunk joined by a single space when the
\* earlier chunk had at least two sentences, and with its single sentence
\* otherwise, followed by the sentence that triggered the seal (the sentence
\* of the text that comes after the earlier chunk's last one).
C13_OverlapPrefix ==
    ck.done =>
       \A i \in 1..(Len(ck.out) - 1) :
          LET sentences == split_sentences(clean_text(ck.text))
              carried == CarriedOver(ck.out[i])
              trigger == sentences[LastSentenceOf(ck.out, i) + 1]
          IN /\ LastSentenceOf(ck.out, i) < Len(sentences)
             /\ IsPrefix(JoinSpace(Append(carried, trigger)), ck.out[i + 1].chunk_text)
             /\ SubSeq(SentencesOf(ck.out[i + 1]), 1, Len(carried) + 1)
                   = Append(carried, trigger)

\* a sealed chunk of three sentences, of which the next chunk carries two,
\* and a sealed chunk of one sentence
C13_Witness ==
    /\ ck.done /\ Len(ck.out) >= 2
    /\ \E i \in 1..(Len(ck.out) - 1) :
          /\ Len(SentencesOf(ck.out[i])) >= 3
          /\ Len(CarriedOver(ck.out[i])) = 2

---------------------------------------------------------------------------
(* Properties of the pipeline's handling of texts without chunks *)

WhitespaceOnly(text) == \A i \in 1..Len(text) : text[i] \in Whitespace

\* C14: for empty or whitespace-only raw text chunk_text returns an empty
\* list, and POST /process with such text stops the pipeline: every step of
\* such a request leaves the chunk and embedding rows as they were and ends
\* the request with an error status, not a success.
C14_EmptyTextStops ==
    [][\A r \in Requests :
          (rq'[r] # rq[r] /\ WhitespaceOnly(rq'[r].raw_text))
          => /\ chunk_text(rq'[r].raw_text) = <<>>
             /\ chunks' = chunks /\ embeddings' = embeddings
             /\ rq'[r].pc = "done" /\ rq'[r].status >= 400
             /\ rq'[r].chunk_ids = <<>> /\ rq'[r].stored_count = 0]_vars

\* a request with whitespace-only text has stored its document row, found no
\* chunks and returned, while the store holds rows of another request
C14_Witness ==
    \E r \in Requests :
       /\ rq[r].pc = "done" /\ rq[r].failed_in = "chunk_text"
       /\ rq[r].raw_text # <<>> /\ WhitespaceOnly(rq[r].raw_text)
       /\ rq[r].document_id \in DOMAIN documents
       /\ chunks # {}

\* C15: a POST /process request whose text yields zero chunks is answered with
\* a client-error (4xx) status, not a server-error (5xx) status.
C15_ZeroChunksIs4xx ==
    \A r \in Requests :
       (rq[r].pc = "done" /\ rq[r].failed_in = "chunk_text")
       => (rq[r].status >= 400 /\ rq[r].status <= 499)

---------------------------------------------------------------------------
(* Properties of the chunker's treatment of long sentences *)

\* C16: every sentence of the text that is longer than the target chunk size
\* is emitted as its own chunk: some produced chunk's text is that sentence
\* alone, whatever precedes the sentence in the text.
C16_LongSentenceAlone ==
    ck.done =>
       LET sentences == split_sentences(clean_text(ck.text))
       IN \A k \in 1..Len(sentences) :
             Len(sentences[k]) > chunk_size
             => \E i \in 1..Len(ck.out) : ck.out[i].chunk_text = sentences[k]

---------------------------------------------------------------------------
(* Properties of search *)

\* a step that is a POST /search answered with its result list
Searched == sr'.n # sr.n /\ sr'.status = 200

\* whether a result list is the first n of the rows `cand` in ascending
\* distance from the query text q
IsFirstByDistance(results, cand, q, n) ==
    /\ Len(results) = n
    /\ \A i \in 1..n : \E e \in cand : e.id = results[i].id
    /\ \A i, j \in 1..n : i < j => /\ results[i].id # results[j].id
                                   /\ results[i].distance <= results[j].distance
    /\ \A e \in cand :
          (\A i \in 1..n : results[i].id # e.id)
          => \A i \in 1..n : results[i].distance <= Distance([text |-> q], e.embedding)

\* C17: for every framework filter value F supplied to search_similar(q, W,
\* limit, F), the result is exactly the first min(limit, |C|) rows of C in
\* ascending distance, C being the embedding rows of workspace W whose
\* compliance_framework_id equals F (a NULL framework equals no F): no
\* returned row has another framework.
C17_FilterThenRankThenLimit ==
    [][(Searched /\ sr'.compliance_framework_id # <<>>)
       => LET F == sr'.compliance_framework_id[1]
              C == {e \in embeddings :
                       /\ e.workspace_id = sr'.workspace_id
                       /\ e.compliance_framework_id # 0
                       /\ e.compliance_framework_id = F}
          IN /\ IsFirstByDistance(sr'.results, C, sr'.query_text,
                                  MinOf(sr'.limit, Cardinality(C)))
             /\ \A i \in 1..Len(sr'.results) :
                   sr'.results[i].compliance_framework_id = F]_vars

\* the document tables that agree with `docs` on every row of workspace w:
\* the rows of other workspaces may carry any filename
DocumentsAgreeingOn(docs, w) ==
    {docs2 \in [DOMAIN docs -> UNION {{[docs[d] EXCEPT !.filename = f] :
                                          f \in SearchFilenames} : d \in DOMAIN docs}] :
        \A d \in DOMAIN docs :
           /\ docs[d].workspace_id = w => docs2[d] = docs[d]
           /\ docs2[d] \in {[docs[d] EXCEPT !.filename = f] : f \in SearchFilenames}}

\* the embedding tables that agree with `embs` on every row of workspace w
EmbeddingsAgreeingOn(embs, w) ==
    {embs \ gone : gone \in SUBSET {e \in embs : e.workspace_id # w}}

\* C18: POST /search for workspace W returns only chunks whose embedding row
\* belongs to W, and the result does not depend on other workspaces: every
\* store that agrees with this one on all rows of W, whatever rows it holds
\* for other workspaces, can give the same result.
C18_WorkspaceIsolation ==
    [][Searched
       => /\ \A i \in 1..Len(sr'.results) :
                \E e \in embeddings : /\ e.id = sr'.results[i].id
                                      /\ e.workspace_id = sr'.workspace_id
          /\ \A docs2 \in DocumentsAgreeingOn(documents, sr'.workspace_id),
                embs2 \in EmbeddingsAgreeingOn(embeddings, sr'.workspace_id) :
                sr'.results \in search_similar(docs2, chunks, embs2,
                                               [text |-> sr'.query_text],
                                               sr'.workspace_id, sr'.limit,
                                               sr'.compliance_framework_id)]_vars

---------------------------------------------------------------------------
(* Properties of delete and of the admin cleanup *)

\* a step that is DELETE /documents/{id} answered with success: the response
\* is new, or it repeats the last one and the document row goes
Deleted ==
    /\ resp'.op = "delete" /\ resp'.status = 200
    /\ \/ resp' # resp
       \/ /\ resp'.document_id \in DOMAIN documents
          /\ resp'.document_id \notin DOMAIN documents'

\* C19: after DELETE /documents/{id} returns success, the store holds no
\* document row, no chunk row and no embedding row for that id, and the
\* deletedChunks and deletedEmbeddings it reports are the numbers of such rows
\* that existed immediately before the deletion.
C19_DeleteRemovesAndCounts ==
    [][Deleted
       => LET d == resp'.document_id
          IN /\ d \notin DOMAIN documents'
             /\ \A c \in chunks' : c.document_id # d
             /\ \A e \in embeddings' : e.document_id # d
             /\ resp'.deletedChunks = Cardinality(ChunkRowsOf(chunks, d))
             /\ resp'.deletedEmbeddings = Cardinality(EmbeddingRowsOf(embeddings, d))]_vars

\* a delete has removed chunk and embedding rows of a document while a
\* request for that document was still running
C19_Witness ==
    /\ resp.op = "delete" /\ resp.status = 200
    /\ resp.deletedChunks >= 2 /\ resp.deletedEmbeddings >= 1
    /\ resp.document_id \notin DOMAIN documents
    /\ \E r \in Requests : rq[r].document_id = resp.document_id /\ InFlight(r)

\* a step that is the admin cleanup answered with success: the response is
\* new, or it repeats the last one and document rows go
CleanedUp ==
    /\ resp'.op = "cleanup" /\ resp'.status = 200
    /\ \/ resp' # resp
       \/ \E d \in DOMAIN documents : d \notin DOMAIN documents'

\* C20: after the admin cleanup succeeds with a set V of valid document ids,
\* the documents, chunks and embeddings in the store are exactly the rows
\* present before whose document id is in V: every row of a document not in
\* V is gone and every row of a document in V is unchanged.
C20_CleanupKeepsExactlyValid ==
    [][CleanedUp
       => LET V == resp'.valid
          IN /\ DOMAIN documents' = DOMAIN documents \cap V
             /\ \A d \in DOMAIN documents' : documents'[d] = documents[d]
             /\ chunks' = {c \in chunks : c.document_id \in V}
             /\ embeddings' = {e \in embeddings : e.document_id \in V}]_vars

\* a cleanup has removed one document with its chunks and embeddings and has
\* kept another with its rows
C20_Witness ==
    /\ resp.op = "cleanup" /\ resp.status = 200
    /\ resp.deletedDocuments = 1 /\ resp.deletedChunks >= 1 /\ resp.deletedEmbeddings >= 1
    /\ \E d \in DOMAIN documents :
          /\ d \in resp.valid
          /\ ChunkRowsOf(chunks, d) # {} /\ EmbeddingRowsOf(embeddings, d) # {}

---------------------------------------------------------------------------
(* Properties of the document endpoints *)

\* C21: every document-scoped endpoint (status, vector-status, chunks,
\* embedding-stats, delete) called with a document id that is not in the
\* store answers with the not-found status 404, never with a success
\* response and never with a server error.
C21_UnknownIdIsNotFound ==
    [][/\ (qr' # qr /\ qr'.document_id \notin DOMAIN documents) => qr'.status = 404
       /\ (resp' # resp /\ resp'.op = "delete" /\ resp'.document_id \notin DOMAIN documents)
          => resp'.status = 404]_vars

---------------------------------------------------------------------------
(* Properties of the tagger *)

\* the positions in the table of the frameworks with at least one trigger
\* phrase inside the lower-cased text
FrameworksHit(text) ==
    { i \in 1..Len(framework_keywords) :
        \E k \in framework_keywords[i].keywords : Contains(Lower(text), k) }

\* the least position of a non-empty set of positions
FirstOf(positions) == CHOOSE i \in positions : \A j \in positions : i <= j

\* C22: tag_chunk's primary framework is the first framework, in table order,
\* with at least one trigger phrase in the lower-cased text, however many
\* phrases each framework matches; it is None exactly when no framework
\* matches; and the tags are exactly the display names of the matching
\* frameworks.
C22_PrimaryIsFirstMatch ==
    tg.done =>
        LET hit == FrameworksHit(tg.text)
        IN /\ (tg.out.compliance_framework_id = 0) <=> (hit = {})
           /\ hit # {} =>
                 tg.out.compliance_framework_id = framework_keywords[FirstOf(hit)].id
           /\ tg.out.compliance_tags = { framework_keywords[i].name : i \in hit }

\* a text in capitals where ISO 27001 matches by one phrase and HIPAA, later in
\* the table, by two: the primary framework is ISO 27001
C22_Witness ==
    /\ tg.done
    /\ Contains(tg.text, <<"I", "S", "M", "S">>)
    /\ Contains(tg.text, <<"h", "i", "p", "a", "a">>)
    /\ Contains(tg.text, <<"p", "h", "i">>)
    /\ tg.out.compliance_framework_id = 2
    /\ tg.out.compliance_tags = {"ISO 27001", "HIPAA"}

---------------------------------------------------------------------------
(* Properties of the calls made to the model *)

\* the service can get past generate_embeddings' load check from state s
ModelUsable(s) ==
    /\ s.model = "None" => artifact = "ok"
    /\ s.model # "None" => s.initialized

\* the texts of a call that are not served by the cache of state s, in input
\* order
MissTexts(s, texts, normalize) ==
    SelectSeq(texts, LAMBDA t : \/ ~settings.cache_enabled
                                \/ compute_cache_key(t, normalize) \notin CacheKeys(s.cache))

\* C23: a generate_embeddings call that gets past the load check invokes the
\* model's encode exactly once, with the cache-miss texts in input order, when
\* some input misses, and not at all when every input is served by the cache.
C23_OneBatchedEncode ==
    (last.op = "generate" /\ ModelUsable(last.before)) =>
        LET misses == MissTexts(last.before, last.texts, last.normalize)
        IN last.encode_calls = IF misses # <<>> THEN <<misses>> ELSE <<>>

---------------------------------------------------------------------------
(* Properties of concurrent generate_embeddings calls *)

\* the vectors of `result` are those of `texts`, position by position
AlignedWith(result, texts) ==
    /\ Len(result) = Len(texts)
    /\ \A i \in 1..Len(texts) : result[i].text = texts[i] /\ result[i].normalize

\* C24: under every interleaving of two generate_embeddings calls on executor
\* threads, neither call raises, and each returns the vectors of its own
\* texts in input order.
C24_ConcurrentCallsSucceed ==
    \A t \in Threads :
       /\ th[t].pc # "raised"
       /\ th[t].pc = "returned" => AlignedWith(th[t].result, th[t].texts)

---------------------------------------------------------------------------
(* Properties of requests processed together *)

\* what the store holds after POST /process of (d, w, text) on an empty store
\* with no other request in flight
process_alone(d, w, text) ==
    LET docs1 == store_document(<<>>, d, w, text, CHOOSE f \in Filenames : TRUE, 1)
        chs == chunk_text(text)
        ids == [i \in 1..Len(chs) |-> i]
        chs1 == {ChunkRow(ids[i], d, w, chs[i]) : i \in 1..Len(chs)}
        texts == [i \in 1..Len(chs) |-> chs[i].chunk_text]
        tags_list == [i \in 1..Len(chs) |-> tag_chunk(chs[i].chunk_text)]
        g == generate_embeddings(FreshService, texts, TRUE, 0, TRUE)
        st == store_embeddings_loop(docs1, chs1, {}, d, w, ids, g.result, tags_list, 3, 0)
    IN IF chs = <<>>
       THEN [documents |-> docs1, chunks |-> {}, embeddings |-> {}]
       ELSE IF g.outcome = "raised"
       THEN [documents |-> docs1, chunks |-> chs1, embeddings |-> {}]
       ELSE IF st.raised
       THEN [documents |-> docs1, chunks |-> chs1, embeddings |-> st.embeddings]
       ELSE [documents |-> complete_document(docs1, d, Len(ids), st.stored_count, 3),
             chunks |-> complete_chunks(chs1, d), embeddings |-> st.embeddings]

\* a document's row, chunk rows and embedding rows without the values that
\* differ between any two runs: surrogate chunk ids, timestamps, and which
\* encode call produced a vector
StoredFor(docs, chs, embs, d) ==
    [document |-> IF d \in DOMAIN docs
                  THEN [workspace_id |-> docs[d].workspace_id, raw_text |-> docs[d].raw_text,
                        processing_status |-> docs[d].processing_status,
                        chunk_count |-> docs[d].chunk_count,
                        embedding_count |-> docs[d].embedding_count]
                  ELSE [workspace_id |-> "", raw_text |-> <<>>, processing_status |-> "absent",
                        chunk_count |-> 0, embedding_count |-> 0],
     chunks |-> {[c EXCEPT !.id = 0] : c \in {x \in chs : x.document_id = d}},
     embeddings |-> {[id |-> e.id, workspace_id |-> e.workspace_id,
                      text |-> e.embedding.text, normalize |-> e.embedding.normalize,
                      compliance_framework_id |-> e.compliance_framework_id,
                      chunk_index |-> {c.chunk_index : c \in {x \in chs : x.id = e.chunk_id}}] :
                     e \in {x \in embs : x.document_id = d}}]

\* request r has been answered and no other request named its document
AnsweredApart(r) ==
    /\ rq[r].pc = "done"
    /\ \A q \in 1..MaxRequests : q # r => rq[q].document_id # rq[r].document_id

\* C25: a document processed while a request for another document is in
\* flight ends with the same document row, chunk rows and embedding rows as
\* when it is processed alone, under every interleaving.
C25_SameAsAlone ==
    \A r \in 1..MaxRequests :
       AnsweredApart(r) =>
          LET alone == process_alone(rq[r].document_id, rq[r].workspace_id, rq[r].raw_text)
          IN StoredFor(documents, chunks, embeddings, rq[r].document_id)
               = StoredFor(alone.documents, alone.chunks, alone.embeddings, rq[r].document_id)

---------------------------------------------------------------------------
(* Properties of calls made without a usable model *)

\* the cache and the four counters of a service state
CacheAndCounters(s) ==
    <<s.cache, s.cache_hits, s.cache_misses, s.total_requests, s.total_embeddings>>

\* C26: a generate_embeddings call made when the model is not initialized and
\* cannot be loaded raises for the whole batch: it returns no vector, and the
\* cache and the hit, miss, request and total-embeddings counters are what
\* they were before the call.
C26_UnloadableFailsWholeBatch ==
    (last.op = "generate" /\ ~ModelUsable(last.before)) =>
        /\ last.outcome = "raised"
        /\ last.result = <<>>
        /\ CacheAndCounters(svc) = CacheAndCounters(last.before)

\* a call with two texts on a service whose model cannot be loaded, after an
\* earlier operation
C26_Witness ==
    /\ last.op = "generate"
    /\ last.before.model = "None"
    /\ artifact = "load_error"
    /\ Len(last.texts) = 2
    /\ nops = 2
    /\ last.outcome = "raised"

---------------------------------------------------------------------------
(* Properties of a failed load *)

\* the step is a generate_embeddings call that follows an operation in which
\* load_model found the dimensions wrong
CallAfterMismatch ==
    /\ artifact = "dim_mismatch"
    /\ last.op \in {"generate", "load_model"}
    /\ last.outcome = "raised"
    /\ nops' = nops + 1
    /\ last'.op = "generate"

\* C27: after a dimension mismatch at load the service stays not ready, no
\* vector is returned or cached, and a later generate_embeddings call raises
\* without attempting the load again (no model is constructed, so no test
\* encoding is made).
C27_MismatchIsPermanent ==
    [][CallAfterMismatch =>
          /\ last'.outcome = "raised"
          /\ last'.result = <<>>
          /\ ~is_ready(svc')
          /\ svc'.cache = <<>>
          /\ last'.encode_calls = <<>>]_vars

---------------------------------------------------------------------------
(* Properties of the event loop *)

\* request r's model call is in progress
InferenceInProgress(r) ==
    /\ ev[r].phase \in {"running", "waiting"}
    /\ Handlers[ev[r].path][ev[r].k].model_call

\* C28: on every request path that generates embeddings the model call runs
\* on a worker thread: while a request's inference is in progress its handler
\* does not hold the event loop, which can begin another request.
C28_InferenceOffTheLoop ==
    \A r \in 1..MaxRequests : InferenceInProgress(r) => ev[r].phase # "running"

---------------------------------------------------------------------------
(* Properties of the readiness probe *)

\* the step is GET /health/ready being answered
ReadinessAnswered == qr' # qr /\ qr'.op = "ready"

\* C29: GET /health/ready answers 200 only when the model is loaded and the
\* service is ready, and 503 whenever is_ready() is false.
C29_ReadyOnlyWhenReady ==
    [][ReadinessAnswered =>
          /\ qr'.status = 200 => is_ready(svc)
          /\ ~is_ready(svc) => qr'.status = 503]_vars

---------------------------------------------------------------------------
(* Properties of the rate limiter *)

\* the number of accepted requests of a key within the window that ends at
\* time `now`; rl.last.at is the time of the most recent call
AcceptedRecently(api_key, now) == Len(recent(rl.accepted[api_key], now))

\* C30: for each API key, check_rate_limit accepts a request only while fewer
\* than limit_per_minute accepted requests of the key lie in the last 60
\* seconds; a rejected request is not recorded; get_current_usage(key) is the
\* number of accepted requests of the key in the last 60 seconds and never
\* exceeds the limit.
C30_SlidingWindowLimit ==
    /\ \A k \in ApiKeys :
          /\ recent(rl.requests[k], rl.now) = recent(rl.accepted[k], rl.now)
          /\ AcceptedRecently(k, rl.now) <= rl.limit_per_minute
    /\ rl.last.op = "check" =>
          /\ rl.last.result = 1 =>
                Len(recent(rl.last.before, rl.last.at)) < rl.limit_per_minute
          /\ rl.last.result = 0 =>
                rl.requests[rl.last.api_key] = recent(rl.last.before, rl.last.at)
    /\ rl.last.op = "usage" =>
          /\ rl.last.result = AcceptedRecently(rl.last.api_key, rl.last.at)
          /\ rl.last.result <= rl.limit_per_minute

\* a request rejected at the limit, after accepted requests of the same key
\* have left the window and the key was used up to the limit again
C30_Witness ==
    /\ rl.last.op = "check"
    /\ rl.last.result = 0
    /\ Len(rl.accepted[rl.last.api_key]) > rl.limit_per_minute
    /\ Len(rl.requests[rl.last.api_key]) = rl.limit_per_minute

---------------------------------------------------------------------------
(* Properties of POST /embed *)

\* a body the claim is about: some text empty or of whitespace only, or more
\* texts than max_batch_size
Malformed(texts) ==
    \/ Len(texts) > max_batch_size
    \/ \E i \in 1..Len(texts) : Strip(texts[i]) = <<>>

\* C31: an authenticated POST /embed whose body has an empty or
\* whitespace-only text, or more texts than max_batch_size, is answered 400
\* without any method of the embedding service being called: the cache, the
\* counters and the model handle are what they were before the request.
C31_MalformedIsRejected ==
    [][ (eb'.n # eb.n /\ eb'.credentials = "valid" /\ Malformed(eb'.texts))
        => (eb'.status = 400 /\ ~eb'.invoked /\ svc' = svc) ]_vars

\* a request with a whitespace-only text beside a good one has been answered
\* 400 by a service that holds a loaded model, cache entries and counts
C31_Witness ==
    /\ eb.credentials = "valid"
    /\ eb.status = 400
    /\ Len(eb.texts) = 2 /\ eb.texts[1] \in Texts /\ eb.texts[2] = <<" ", "\n">>
    /\ is_ready(svc)
    /\ svc.cache # <<>>
    /\ svc.total_embeddings > 0

---------------------------------------------------------------------------
(* Properties of the status endpoint's chunk counts *)

\* the number of the document's chunk rows with the given embedding_status
ChunksWithStatus(chs, d, status) ==
    Cardinality({c \in chs : c.document_id = d /\ c.embedding_status = status})

\* C32: the completed, pending, processing and failed counts that
\* GET /documents/{id}/status reports for a stored document are the numbers
\* of the document's chunk rows with that embedding_status at the time of
\* the request; a chunk row set to 'failed' is counted under failed.
C32_CountsAreChunkRows ==
    [][ (qr' # qr /\ qr'.op = "status" /\ qr'.status = 200)
        => /\ qr'.completed = ChunksWithStatus(chunks, qr'.document_id, "completed")
           /\ qr'.pending = ChunksWithStatus(chunks, qr'.document_id, "pending")
           /\ qr'.processing = ChunksWithStatus(chunks, qr'.document_id, "processing")
           /\ qr'.failed = ChunksWithStatus(chunks, qr'.document_id, "failed") ]_vars

---------------------------------------------------------------------------
(* Properties of the singleton's readiness *)

\* C33: once the model is loaded, EmbeddingService() and clear_cache leave
\* is_ready() true, and the service never holds a loaded model while
\* rejecting requests as 'Model not initialized' (_model set, _initialized
\* false).
C33_LoadedStaysReady ==
    /\ (last.op \in {"construct", "clear_cache"} /\ is_ready(last.before)) => is_ready(svc)
    /\ svc.model # "None" => svc.initialized

---------------------------------------------------------------------------
(* Properties of the cache's size *)

\* C34: in every reachable state, also between the steps of
\* generate_embeddings calls that run on two threads at once, the cache holds
\* at most settings.cache_size entries.
C34_CacheWithinCapacity == Len(svc.cache) <= settings.cache_size

---------------------------------------------------------------------------
(* Properties of a write to a key the cache already holds *)

\* the key thread t's _add_to_cache call is writing
WritingKey(t) == compute_cache_key(th[t].texts[th[t].to_generate[th[t].j]], TRUE)

\* C35: a write of a key that the cache already holds evicts no other entry:
\* when _add_to_cache deletes an entry while the key it is about to write is
\* in the cache, the cached keys after the write are those before it (the
\* deleted entry can only be that key's own).
C35_RewriteDoesNotEvict ==
    [][ \A t \in Threads :
          ( /\ th[t].pc = "evict_del" /\ th'[t].pc = "set"
            /\ WritingKey(t) \in CacheKeys(svc.cache) )
          => CacheKeys(svc'.cache) \cup {WritingKey(t)} = CacheKeys(svc.cache) ]_vars

---------------------------------------------------------------------------
(* Properties of the counters *)

\* C36: with caching enabled and calls made one at a time, cache_hits +
\* cache_misses equals total_embeddings, the number of input texts submitted,
\* after every sequence of calls. (It holds after calls that raise as well:
\* a call that fails at the load check counts nothing, and one that fails
\* later has counted its texts and looked each of them up.)
C36_HitsPlusMissesIsTotal ==
    settings.cache_enabled => svc.cache_hits + svc.cache_misses = svc.total_embeddings

\* three calls have returned, the last one with a hit and a miss in one batch
C36_Witness ==
    /\ settings.cache_enabled
    /\ nops = 3 /\ svc.total_requests = 3
    /\ Returned
    /\ Len(last.texts) = 2
    /\ svc.cache_hits = last.before.cache_hits + 1
    /\ svc.cache_misses = last.before.cache_misses + 1

---------------------------------------------------------------------------
(* Properties of completed documents *)

\* C37: in every reachable state a document whose processing_status is
\* 'completed' has embedding_count = chunk_count >= 1 and exactly chunk_count
\* chunk rows, each of them 'completed' and each with exactly one embedding
\* row, which belongs to the same document.
C37_CompletedIsConsistent ==
    \A d \in DOMAIN documents :
       documents[d].processing_status = "completed"
       => /\ documents[d].embedding_count = documents[d].chunk_count
          /\ documents[d].chunk_count >= 1
          /\ Cardinality(ChunkRowsOf(chunks, d)) = documents[d].chunk_count
          /\ \A c \in ChunkRowsOf(chunks, d) :
                /\ c.embedding_status = "completed"
                /\ Cardinality({e \in embeddings : e.chunk_id = c.id}) = 1
                /\ \A e \in embeddings : e.chunk_id = c.id => e.document_id = d

---------------------------------------------------------------------------
(* Properties of the chunker's coverage of the text *)

\* the sentences of the chunks, one chunk after the other
RECURSIVE Flatten(_)
Flatten(out) ==
    IF out = <<>> THEN <<>> ELSE SentencesOf(Head(out)) \o Flatten(Tail(out))

\* position of the first occurrence of v in seq
FirstIndex(seq, v) == CHOOSE i \in 1..Len(seq) : seq[i] = v /\ \A j \in 1..(i - 1) : seq[j] # v

\* C38: chunk_text loses no text: every sentence of the cleaned input is a
\* sentence of at least one chunk, two different sentences first occur in
\* the chunk sequence in the order in which they first occur in the input,
\* and there are at most as many chunks as sentences.
C38_NoTextLost ==
    ck.done =>
       LET sentences == split_sentences(clean_text(ck.text))
           produced == Flatten(ck.out)
           Values(seq) == {seq[i] : i \in 1..Len(seq)}
       IN /\ Values(sentences) \subseteq Values(produced)
          /\ \A u, v \in Values(sentences) :
                FirstIndex(sentences, u) < FirstIndex(sentences, v)
                => FirstIndex(produced, u) < FirstIndex(produced, v)
          /\ Len(ck.out) <= Len(sentences)

\* a text of at least three different sentences in at least two chunks, the
\* later chunk repeating a sentence of the earlier one
C38_Witness ==
    /\ ck.done /\ Len(ck.out) >= 2
    /\ LET sentences == split_sentences(clean_text(ck.text))
       IN /\ Cardinality({sentences[i] : i \in 1..Len(sentences)}) >= 3
          /\ Len(Flatten(ck.out)) > Len(sentences)

---------------------------------------------------------------------------
(* Properties of the chunker's chunk sizes *)

\* the total length of the chunk's sentences, as the loop's current_length
\* counts it (the joining spaces are not counted)
SentenceTotal(chunk) == SumLen(SentencesOf(chunk))

\* C39: a produced chunk whose sentences' total length exceeds the target
\* chunk size has at most three sentences: it is a first chunk of one long
\* sentence, or the at most two sentences carried over from the chunk before
\* it plus the one sentence that triggered the seal. Every chunk of more
\* sentences has a total within the target size.
C39_OversizeIsOverlapPlusOne ==
    ck.done =>
       \A i \in 1..Len(ck.out) :
          IF SentenceTotal(ck.out[i]) > chunk_size
          THEN /\ Len(SentencesOf(ck.out[i])) <= 3
               /\ i = 1 => Len(SentencesOf(ck.out[i])) = 1
               /\ i > 1 => /\ Len(CarriedOver(ck.out[i - 1])) <= 2
                           /\ Len(SentencesOf(ck.out[i]))
                                 = Len(CarriedOver(ck.out[i - 1])) + 1
          ELSE SentenceTotal(ck.out[i]) <= chunk_size

\* a chunk over the target size made of two carried-over sentences and the
\* sentence that triggered the seal, after a sealed chunk within the size
C39_Witness ==
    /\ ck.done /\ Len(ck.out) >= 2
    /\ SentenceTotal(ck.out[1]) <= chunk_size
    /\ SentenceTotal(ck.out[2]) > chunk_size
    /\ Len(SentencesOf(ck.out[2])) = 3

---------------------------------------------------------------------------
(* Properties of reprocessing after a failure *)

\* request r is answered 200 in this step, for a document for which an
\* earlier request was answered 500
ReprocessedAfterFailure(r) ==
    /\ rq[r].pc = "idle" /\ rq'[r].pc = "done" /\ rq'[r].status = 200
    /\ \E r2 \in Requests \ {r} :
          /\ Returned500(r2)
          /\ rq[r2].document_id = rq'[r].document_id

\* C40: when POST /process succeeds for a document whose earlier attempt
\* failed, with no delete in between, the document is 'completed' and the
\* chunk and embedding rows stored for it are those of the new attempt only.
C40_ReprocessedHoldsOnlyNewRows ==
    [][ \A r \in Requests :
          ReprocessedAfterFailure(r)
          => LET d == rq'[r].document_id
                 new_ids == {rq'[r].chunk_ids[i] : i \in 1..Len(rq'[r].chunk_ids)}
             IN /\ documents'[d].processing_status = "completed"
                /\ {c.id : c \in ChunkRowsOf(chunks', d)} = new_ids
                /\ {e.chunk_id : e \in EmbeddingRowsOf(embeddings', d)} = new_ids ]_vars

=============================================================================
